---- MODULE Spec2Model ----
EXTENDS Integers, Sequences, FiniteSets, TLC

(***************************************************************************)
(* Model of the note-processing pipeline of src/processor:                 *)
(*   - the three tag allocators of proc.py (tfidf, textrank, keybert),     *)
(*   - the git time index builders of proc.py and process_posts.py.        *)
(* A term is a sequence of one-character strings, so that lower-casing,    *)
(* stripping and the length / digit / separator tests are computed on the  *)
(* characters, as the Python code computes them.                           *)
(***************************************************************************)

\* ------------------------------------------------------------------ bounds
MaxDocs == 2
MaxCands == 2
MaxTagCount == 2
MaxUniqueTags == 2
MaxCalls == 2

\* ------------------------------------------------------------- characters
LowerChar(c) ==
    CASE c = "G" -> "g"
      [] c = "R" -> "r"
      [] c = "I" -> "i"
      [] c = "N" -> "n"
      [] OTHER -> c

Digits == {"0", "1", "2", "3", "4", "5", "6", "7", "8", "9"}

IsSpaceChar(c) == c = " "

\* str.lower()
Lower(w) == [k \in 1..Len(w) |-> LowerChar(w[k])]

\* str.isdigit(): non-empty and every character a digit
IsDigit(w) == Len(w) > 0 /\ \A k \in 1..Len(w) : w[k] \in Digits

\* '/' in w or '\\' in w
IsPathLike(w) == \E k \in 1..Len(w) : w[k] = "/" \/ w[k] = "\\"

\* any(ch.isspace() for ch in word)
HasSpace(w) == \E k \in 1..Len(w) : IsSpaceChar(w[k])

RECURSIVE LStrip(_)
LStrip(w) == IF w # <<>> /\ IsSpaceChar(Head(w)) THEN LStrip(Tail(w)) ELSE w

RECURSIVE RStrip(_)
RStrip(w) ==
    IF w # <<>> /\ IsSpaceChar(w[Len(w)]) THEN RStrip(SubSeq(w, 1, Len(w) - 1)) ELSE w

\* str.strip()
Strip(w) == RStrip(LStrip(w))

\* ------------------------------------------------------------------ terms
go == <<"g", "o">>
Go == <<"G", "o">>
rust == <<"r", "u", "s", "t">>
proxy == <<"p", "r", "o", "x", "y">>
cache == <<"c", "a", "c", "h", "e">>
image == <<"i", "m", "a", "g", "e">>
Image == <<"I", "m", "a", "g", "e">>
shortA == <<"a">>
num42 == <<"4", "2">>
pathAB == <<"a", "/", "b">>
spacedAB == <<"a", " ", "b">>
paddedGo == <<" ", "g", "o">>

_TAG_STOPWORDS ==
    { <<"n", "o", "t", "e", "_", "i", "m", "a", "g", "e">>,
      <<"i", "m", "a", "g", "e", "s">>,
      <<"i", "m", "a", "g", "e">>,
      <<"i", "m", "g">>,
      <<"h", "t", "t", "p">>,
      <<"h", "t", "t", "p", "s">>,
      <<"w", "w", "w">>,
      <<"t", "r", "u", "e">>,
      <<"f", "a", "l", "s", "e">>,
      <<"n", "u", "l", "l">>,
      <<"n", "o", "n", "e">> }

\* Words the allocation families are built from, and the words (short,
\* numeric, path-like, spaced, padded, stopword in two cases) that exercise
\* the filters.
AllocWords == {go, Go, rust, proxy, image}
FilterWords == AllocWords \cup {Image, shortA, num42, pathAB, spacedAB, paddedGo}

Range(q) == {q[k] : k \in DOMAIN q}

SeqsUpTo(S, n) == UNION {[1..k -> S] : k \in 0..n}

\* A corpus is the list of files in the order process_directory hands them
\* to build_index; a file is the list of its words in the backend's rank
\* order.
ExampleCorpus == << <<go, go, rust>>, <<rust, proxy>>, <<proxy, cache>> >>

AllocCorpora == SeqsUpTo(SeqsUpTo(AllocWords, MaxCands), MaxDocs)
FilterCorpora == {<<d>> : d \in SeqsUpTo(FilterWords, MaxCands)}
Corpora == AllocCorpora \cup FilterCorpora \cup {ExampleCorpus}

Methods == {"tfidf", "textrank", "keybert"}

Max2(a, b) == IF a >= b THEN a ELSE b

\* ------------------------------------------------------------------ state
VARIABLES
    tag_method,       \* which extractor build_index belongs to
    tag_count,        \* build_index argument
    max_unique_tags,  \* build_index argument
    docs,             \* the files, in the order given to build_index
    tpc,              \* position of the allocator: idle, outer, inner, returned
    doc_i,            \* index of the file of the outer loop
    cand_j,           \* index of the candidate of the inner loop
    picked,           \* picked: List[str] of the current file
    seen_local,       \* seen_local of the keybert loop
    used_global,      \* used_global: Set[str]
    tags_by_path,     \* tags_by_path: Dict[str, List[str]], keyed by file index
    returned,         \* the mapping returned by the call (when tpc = returned)
    prev_returned,    \* the mappings returned by the earlier calls
    calls,            \* number of build_index calls started
    \* --- _build_git_time_index (proc.py and process_posts.py)
    interest_paths,   \* interest_paths: Set[str]
    current_ts,       \* current_ts: Optional[int], <<>> for None, <<n>> for n
    gpc,              \* position of proc.py's builder: idle, scan, done
    back_trace,       \* proc.py: back_trace: Dict[str, str]
    updated,          \* proc.py: updated: Dict[str, int]
    created,          \* proc.py: created: Dict[str, int]
    result,           \* proc.py: the dict returned
    ppc,              \* position of process_posts.py's builder: idle, scan, stopped, hung, done
    back_alias,       \* process_posts.py: back_alias
    p_updated,        \* process_posts.py: updated
    p_created,        \* process_posts.py: created
    done,             \* process_posts.py: done: Set[str]
    p_result,         \* process_posts.py: the dict returned
    \* --- what the stream read so far was (history variables)
    amd_seen,         \* per path <<oldest, newest>> timestamp of its records, while the
                      \* stream is newest-first and holds only A/M/D records
    amd_class,        \* "on" while the stream is of that kind, and the last timestamp
    marker_ok,        \* the last marker line read held a timestamp that parses
    tree0,            \* the files of the repository's current tree
    holder,           \* the file (by its current name) holding each name at this
                      \* point of the history, walking back
    truth,            \* per file <<created, updated>> of the history walked back
    hist_class,       \* "ts" / "change": the stream is a linear history, and the
                      \* line due next; "off" otherwise
    chain,            \* progress of the rename chain A->B, X->A in the stream
    returncode,       \* proc.py: cp.returncode, <<>> before git has run
    tmp_file,         \* proc.py: the file at out_path: none, written, removed
    \* --- the scan of the whole stream next to process_posts.py's loop
    f_alias,          \* back_alias of the scan that never breaks
    f_updated,        \* its updated
    f_created,        \* its created
    f_pc,             \* its position: idle, scan, hung
    f_last,           \* the last timestamp parsed from the stream
    ex_pos,           \* lines of ExampleStream matched so far, OffExample otherwise
    \* --- process_directory and process_file (proc.py)
    dpc,              \* position: idle, start, tags, git, files, done, raised
    files,            \* files: the sorted Markdown files below target_dir
    cfg,              \* the ProcessConfig fields read here
    _time_cache,      \* cfg._time_cache
    _tags_by_path,    \* cfg._tags_by_path
    file_i,           \* index of the file of the loop over files
    written,          \* per file, what path.write_text wrote
    raised,           \* the path named by the RuntimeError raised, <<>> when none
    tags_read,        \* the rewritten files that build_index read
    notes_log,        \* per file, what git log --follow yields for it: <<>> or <<times>>
    \* --- history variables of the calls
    resolved,         \* the last resolve_final call: name, table before and after, result
    cache0,           \* cfg._time_cache as process_directory received it
    \* --- rename_covers.py
    cpc,              \* position: idle, start, phase1, phase2, done, or where it raised
    dir_path,         \* the entries of the cover directory: name -> kind and content
    dir0,             \* the entries when main was called
    cover_args,       \* start, ext, dry_run, overwrite
    plan,             \* RenamePlan: sources and final_names, <<>> before _build_plan
    cover_i,          \* index of the pair of the running loop of _apply_rename
    \* --- sync.py
    spc,              \* position: idle, start, delete, md, images, post, done
    notes,            \* the notes tree: its files and what .bgignore matches
    sync_cfg,         \* the SyncConfig fields read by _sync
    scan,             \* what _walk_notes and _compute_subtree_counts returned
    target,           \* the files below target_dir and image_target_dir
    target0,          \* the same when _sync was called
    sync_i,           \* index in md_files / image_files of the running loop
    copied,           \* the files counted in copied and copied_images
    post_run          \* process_posts.py was started by _sync

tagVars ==
    << tag_method, tag_count, max_unique_tags, docs, tpc, doc_i, cand_j, picked,
       seen_local, used_global, tags_by_path, returned, prev_returned, calls >>

procVars == << gpc, back_trace, updated, created, result, returncode, tmp_file >>

postsVars == << ppc, back_alias, p_updated, p_created, done, p_result >>

streamVars == << amd_seen, amd_class, marker_ok >>

histVars == << tree0, holder, truth, hist_class >>

gitVars == << interest_paths, current_ts, procVars, postsVars, streamVars, histVars, chain >>

fullVars == << f_alias, f_updated, f_created, f_pc, f_last, ex_pos >>

dirVars ==
    << dpc, files, cfg, _time_cache, _tags_by_path, file_i, written, raised, tags_read,
       notes_log >>

callVars == << resolved, cache0 >>

coverVars == << cpc, dir_path, dir0, cover_args, plan, cover_i >>

syncVars == << spc, notes, sync_cfg, scan, target, target0, sync_i, copied, post_run >>

extVars == << callVars, coverVars, syncVars >>

vars == << tagVars, gitVars, fullVars, dirVars, extVars >>

\* ------------------------------------------------- proc.py: _jieba_tokenize
RECURSIVE JiebaLoop(_, _, _, _)
JiebaLoop(ts, dedupe, seen, out) ==
    IF ts = <<>> THEN out
    ELSE
        LET w == Strip(Head(ts))
            lw == Lower(w)
            rest == Tail(ts)
        IN  IF w = <<>> THEN JiebaLoop(rest, dedupe, seen, out)
            ELSE IF lw \in _TAG_STOPWORDS THEN JiebaLoop(rest, dedupe, seen, out)
            ELSE IF dedupe /\ lw \in seen THEN JiebaLoop(rest, dedupe, seen, out)
            ELSE IF Len(w) < 2 THEN JiebaLoop(rest, dedupe, seen, out)
            ELSE IF IsDigit(w) THEN JiebaLoop(rest, dedupe, seen, out)
            ELSE IF IsPathLike(w) THEN JiebaLoop(rest, dedupe, seen, out)
            ELSE JiebaLoop(rest, dedupe, IF dedupe THEN seen \cup {lw} ELSE seen,
                           Append(out, w))

_jieba_tokenize(words, dedupe) == JiebaLoop(words, dedupe, {}, <<>>)

\* max(30, tag_count * 10): the number of ranked candidates a loop looks at
CandidateWindow(k) == Max2(30, k * 10)

FirstN(s, n) == SubSeq(s, 1, IF Len(s) < n THEN Len(s) ELSE n)

\* The ranked candidates the allocation loop of each extractor iterates over.
\*   tfidf:    the features of the row, i.e. the deduplicated jieba tokens
\*             (proc.py 189, 215-217);
\*   textrank: tr.get_keywords(num, word_min_len=2) (proc.py 292);
\*   keybert:  kw_model.extract_keywords(doc, top_n) (proc.py 386-392).
Candidates(method, words, k) ==
    CASE method = "tfidf" ->
            FirstN(_jieba_tokenize(words, TRUE), CandidateWindow(k))
      [] method = "textrank" ->
            FirstN(SelectSeq(words, LAMBDA w : Len(w) >= 2), CandidateWindow(k))
      [] OTHER ->
            FirstN(words, CandidateWindow(k))

\* row.nnz == 0 (tfidf, proc.py 210) / not tokens (proc.py 275, 378)
HasNoTokens(method, words) == _jieba_tokenize(words, method = "tfidf") = <<>>

\* t = str(features[idx]) (tfidf) / word = (...).strip() (textrank, keybert)
LoopWord(method, c) == IF method = "tfidf" THEN c ELSE Strip(c)

\* (mutant) the budget test is dropped
BudgetFullNever(used, max) == FALSE

\* (mutant) the budget counts as full one term early
BudgetFullOneEarly(used, max) == Cardinality(used) >= max - 1

\* (mutant) the budget test off by one
BudgetFullOffByOne(used, max) == Cardinality(used) > max

\* len(used_global) >= max_unique_tags
BudgetFull(used, max) == Cardinality(used) >= max

\* (mutant) the walk stops one accepted term too early
WalkDoneOneEarly(p, k) == Len(p) >= k - 1

\* (mutant) the walk stops one accepted term too late
WalkDoneOneLate(p, k) == Len(p) > k

\* len(picked) >= tag_count
WalkDone(p, k) == Len(p) >= k

\* tag_count <= 0 or not files
NothingToDo(k, given) == k <= 0 \/ given = <<>>

\* The loop bodies up to picked.append: TRUE when the word is appended.
TfidfAccepts(t, used, max) ==
    /\ t # <<>>
    /\ Lower(t) \notin _TAG_STOPWORDS
    /\ ~(Lower(t) \notin used /\ BudgetFull(used, max))

\* (mutant) the textrank loop without its stopword test
TextrankAcceptsStopwords(word, used, max) ==
    /\ word # <<>>
    /\ ~(Lower(word) \notin used /\ BudgetFull(used, max))

TextrankAccepts(word, used, max) ==
    /\ word # <<>>
    /\ Lower(word) \notin _TAG_STOPWORDS
    /\ ~(Lower(word) \notin used /\ BudgetFull(used, max))

\* (mutant) the keybert loop without its seen_local test
KeybertAcceptsSeen(word, used, seen, max) ==
    /\ word # <<>>
    /\ ~HasSpace(word)
    /\ Lower(word) \notin _TAG_STOPWORDS
    /\ ~(Len(word) < 2)
    /\ ~IsDigit(word)
    /\ ~IsPathLike(word)
    /\ ~(Lower(word) \notin used /\ BudgetFull(used, max))

KeybertAccepts(word, used, seen, max) ==
    /\ word # <<>>
    /\ ~HasSpace(word)
    /\ Lower(word) \notin _TAG_STOPWORDS
    /\ Lower(word) \notin seen
    /\ ~(Len(word) < 2)
    /\ ~IsDigit(word)
    /\ ~IsPathLike(word)
    /\ ~(Lower(word) \notin used /\ BudgetFull(used, max))

Accepts(method, word, used, seen, max) ==
    CASE method = "tfidf" -> TfidfAccepts(word, used, max)
      [] method = "textrank" -> TextrankAccepts(word, used, max)
      [] OTHER -> KeybertAccepts(word, used, seen, max)

\* (mutant) used_global kept at module level, surviving the call
CarriedUsedGlobal == used_global

\* used_global: Set[str] = set(), a local of each build_index call
FreshUsedGlobal == {}

\* tags_by_path[rel] = tags
PutTags(index, d, tags) ==
    [e \in DOMAIN index \cup {d} |-> IF e = d THEN tags ELSE index[e]]

CurCands == Candidates(tag_method, docs[doc_i], tag_count)

\* ------------------------------------------------ proc.py: build_index
\* A call of build_index on the files: the early return, or the set-up of
\* the allocation pass.
BuildIndex ==
    /\ tpc \in {"idle", "returned"}
    /\ calls < MaxCalls
    /\ calls' = calls + 1
    /\ prev_returned' =
          IF tpc = "returned" THEN Append(prev_returned, returned) ELSE prev_returned
    /\ IF NothingToDo(tag_count, docs)
         THEN /\ tpc' = "returned"
              /\ returned' = <<>>
              /\ UNCHANGED <<used_global, tags_by_path, doc_i>>
         ELSE /\ tpc' = "outer"
              /\ returned' = <<>>
              /\ used_global' = FreshUsedGlobal
              /\ tags_by_path' = <<>>
              /\ doc_i' = 1
    /\ UNCHANGED <<tag_method, tag_count, max_unique_tags, docs, cand_j, picked, seen_local>>
    /\ UNCHANGED <<gitVars, fullVars, dirVars, extVars>>

\* Head of one iteration of the outer loop: a file without tokens gets [],
\* any other starts the walk over its candidates.
NextDoc ==
    /\ tpc = "outer"
    /\ doc_i <= Len(docs)
    /\ IF HasNoTokens(tag_method, docs[doc_i])
         THEN /\ tags_by_path' = PutTags(tags_by_path, doc_i, <<>>)
              /\ doc_i' = doc_i + 1
              /\ UNCHANGED <<tpc, cand_j, picked, seen_local>>
         ELSE /\ tpc' = "inner"
              /\ cand_j' = 1
              /\ picked' = <<>>
              /\ seen_local' = {}
              /\ UNCHANGED <<tags_by_path, doc_i>>
    /\ UNCHANGED <<tag_method, tag_count, max_unique_tags, docs, used_global,
                   returned, prev_returned, calls>>
    /\ UNCHANGED <<gitVars, fullVars, dirVars, extVars>>

\* One iteration of the inner loop over the ranked candidates.
VisitCandidate ==
    /\ tpc = "inner"
    /\ cand_j <= Len(CurCands)
    /\ LET word == LoopWord(tag_method, CurCands[cand_j])
           lw == Lower(word)
       IN  IF Accepts(tag_method, word, used_global, seen_local, max_unique_tags)
             THEN /\ used_global' = used_global \cup {lw}
                  /\ seen_local' =
                        IF tag_method = "keybert" THEN seen_local \cup {lw} ELSE seen_local
                  /\ picked' = Append(picked, word)
                  /\ IF WalkDone(picked', tag_count)
                       THEN /\ tags_by_path' = PutTags(tags_by_path, doc_i, picked')
                            /\ doc_i' = doc_i + 1
                            /\ tpc' = "outer"
                            /\ UNCHANGED cand_j
                       ELSE /\ cand_j' = cand_j + 1
                            /\ UNCHANGED <<tags_by_path, doc_i, tpc>>
             ELSE /\ cand_j' = cand_j + 1
                  /\ UNCHANGED <<used_global, seen_local, picked, tags_by_path, doc_i, tpc>>
    /\ UNCHANGED <<tag_method, tag_count, max_unique_tags, docs, returned,
                   prev_returned, calls>>
    /\ UNCHANGED <<gitVars, fullVars, dirVars, extVars>>

\* The candidates are exhausted: tags_by_path[rel] = picked.
EndDoc ==
    /\ tpc = "inner"
    /\ cand_j > Len(CurCands)
    /\ tags_by_path' = PutTags(tags_by_path, doc_i, picked)
    /\ doc_i' = doc_i + 1
    /\ tpc' = "outer"
    /\ UNCHANGED <<tag_method, tag_count, max_unique_tags, docs, cand_j, picked,
                   seen_local, used_global, returned, prev_returned, calls>>
    /\ UNCHANGED <<gitVars, fullVars, dirVars, extVars>>

\* return tags_by_path
ReturnIndex ==
    /\ tpc = "outer"
    /\ doc_i > Len(docs)
    /\ returned' = tags_by_path
    /\ tpc' = "returned"
    /\ UNCHANGED <<tag_method, tag_count, max_unique_tags, docs, doc_i, cand_j, picked,
                   seen_local, used_global, tags_by_path, prev_returned, calls>>
    /\ UNCHANGED <<gitVars, fullVars, dirVars, extVars>>

\* No scan of the whole stream is kept.
FullIdle ==
    /\ f_alias = <<>>
    /\ f_updated = <<>>
    /\ f_created = <<>>
    /\ f_pc = "idle"
    /\ f_last = 0
    /\ ex_pos = <<>>

\* No call is recorded.
CallIdle ==
    /\ resolved = <<>>
    /\ cache0 = <<>>

\* rename_covers.py is not run.
CoverIdle ==
    /\ cpc = "idle"
    /\ dir_path = <<>>
    /\ dir0 = <<>>
    /\ cover_args = <<>>
    /\ plan = <<>>
    /\ cover_i = 1

\* sync.py is not run.
SyncIdle ==
    /\ spc = "idle"
    /\ notes = <<>>
    /\ sync_cfg = <<>>
    /\ scan = <<>>
    /\ target = <<>>
    /\ target0 = <<>>
    /\ sync_i = 1
    /\ copied = {}
    /\ post_run = FALSE

ExtIdle == CallIdle /\ CoverIdle /\ SyncIdle

\* process_directory is not called.
DirIdle ==
    /\ dpc = "idle"
    /\ files = <<>>
    /\ cfg = <<>>
    /\ _time_cache = <<>>
    /\ _tags_by_path = <<>>
    /\ file_i = 1
    /\ written = <<>>
    /\ raised = <<>>
    /\ tags_read = {}
    /\ notes_log = <<>>

\* The builders before any call.
GitIdle ==
    /\ interest_paths = {}
    /\ current_ts = <<>>
    /\ gpc = "idle"
    /\ back_trace = <<>>
    /\ updated = <<>>
    /\ created = <<>>
    /\ result = <<>>
    /\ ppc = "idle"
    /\ back_alias = <<>>
    /\ p_updated = <<>>
    /\ p_created = <<>>
    /\ done = {}
    /\ p_result = <<>>
    /\ amd_seen = <<>>
    /\ amd_class = FALSE
    /\ marker_ok = FALSE
    /\ tree0 = {}
    /\ holder = <<>>
    /\ truth = <<>>
    /\ hist_class = "off"
    /\ chain = <<>>
    /\ returncode = <<>>
    /\ tmp_file = "none"

TagInputs ==
    /\ tag_method \in Methods
    /\ tag_count \in 0..MaxTagCount
    /\ max_unique_tags \in 0..MaxUniqueTags
    /\ docs \in Corpora
    /\ tpc = "idle"
    /\ doc_i = 1
    /\ cand_j = 1
    /\ picked = <<>>
    /\ seen_local = {}
    /\ used_global = {}
    /\ tags_by_path = <<>>
    /\ returned = <<>>
    /\ prev_returned = <<>>
    /\ calls = 0

TagNext ==
    \/ BuildIndex
    \/ NextDoc
    \/ VisitCandidate
    \/ EndDoc
    \/ ReturnIndex

TagInit == TagInputs /\ GitIdle /\ FullIdle /\ DirIdle /\ ExtIdle

SpecTags == TagInit /\ [][TagNext]_vars

\* ------------------------------------- the allocator on two document orders
Reverse(q) == [i \in 1..Len(q) |-> q[Len(q) + 1 - i]]

\* The first call of build_index.
FirstCall == tpc = "idle" /\ BuildIndex

\* A further call of build_index, on the same files in the opposite order.
ReorderCall ==
    /\ tpc = "returned"
    /\ calls < MaxCalls
    /\ calls' = calls + 1
    /\ prev_returned' = Append(prev_returned, returned)
    /\ docs' = Reverse(docs)
    /\ IF NothingToDo(tag_count, docs')
         THEN /\ tpc' = "returned"
              /\ returned' = <<>>
              /\ UNCHANGED <<used_global, tags_by_path, doc_i>>
         ELSE /\ tpc' = "outer"
              /\ returned' = <<>>
              /\ used_global' = FreshUsedGlobal
              /\ tags_by_path' = <<>>
              /\ doc_i' = 1
    /\ UNCHANGED <<tag_method, tag_count, max_unique_tags, cand_j, picked, seen_local>>
    /\ UNCHANGED <<gitVars, fullVars, dirVars, extVars>>

OrderNext ==
    \/ FirstCall
    \/ ReorderCall
    \/ NextDoc
    \/ VisitCandidate
    \/ EndDoc
    \/ ReturnIndex

SpecOrder == TagInit /\ [][OrderNext]_vars

\* ------------------------------------------------------ claims: allocators

\* C1: during and after an allocation pass of any of the three allocators,
\* the number of distinct lower-cased terms in used_global never exceeds
\* max_unique_tags (after every candidate visited, not only at the end).
C1_UsedWithinBudget == Cardinality(used_global) <= max_unique_tags

\* The budget is full at the end of a pass, and a file holds a candidate
\* that is no stopword and was turned down because it was new.
C1_BudgetBinds ==
    /\ tpc = "returned"
    /\ max_unique_tags >= 1
    /\ Cardinality(used_global) = max_unique_tags
    /\ \E d \in DOMAIN returned :
          \E k \in 1..Len(docs[d]) :
              /\ Len(docs[d][k]) >= 2
              /\ Lower(docs[d][k]) \notin _TAG_STOPWORDS
              /\ Lower(docs[d][k]) \notin used_global

\* C2: every tag list, in the index under construction and in the returned
\* mapping, has length at most tag_count; with tag_count <= 0 no file
\* receives a tag.
C2_ListsWithinTagCount ==
    /\ \A d \in DOMAIN tags_by_path : Len(tags_by_path[d]) <= tag_count
    /\ tpc = "returned" =>
          \A d \in DOMAIN returned :
              /\ Len(returned[d]) <= tag_count
              /\ tag_count <= 0 => returned[d] = <<>>
    /\ tag_count <= 0 => tags_by_path = <<>>

\* A file with more acceptable candidates than tag_count got exactly
\* tag_count tags.
C2_ListCut ==
    /\ tpc = "returned"
    /\ \E d \in DOMAIN returned :
          /\ Len(returned[d]) = tag_count
          /\ Len(Candidates(tag_method, docs[d], tag_count)) > tag_count
          /\ \A k \in 1..Len(docs[d]) : Lower(docs[d][k]) \in used_global

\* The acceptance rule of the spec for one candidate.
SpecAccepts(c, used, max) ==
    /\ Lower(c) \notin _TAG_STOPWORDS
    /\ (Lower(c) \in used \/ Cardinality(used) < max)

C3_VisitFollowsRule ==
    (tpc = "inner" /\ tag_method \in {"tfidf", "textrank"} /\ cand_j <= Len(CurCands)) =>
        LET c == LoopWord(tag_method, CurCands[cand_j])
        IN  IF SpecAccepts(c, used_global, max_unique_tags)
              THEN /\ picked' = Append(picked, c)
                   /\ used_global' = used_global \cup {Lower(c)}
                   /\ (tpc' = "inner" => cand_j' = cand_j + 1)
              ELSE /\ picked' = picked
                   /\ used_global' = used_global
                   /\ tpc' = "inner"
                   /\ cand_j' = cand_j + 1
                   /\ tags_by_path' = tags_by_path

C3_ExampleResult ==
    (/\ docs = ExampleCorpus
     /\ tag_method \in {"tfidf", "textrank"}
     /\ tag_count = 1
     /\ max_unique_tags = 2
     /\ tpc = "returned") =>
        returned = << <<go>>, <<rust>>, <<>> >>

\* C3: in the tfidf and textrank loops the candidates are visited in rank
\* order; a candidate is accepted exactly when its lower-cased form is no
\* stopword and it is in the used set or the used set holds fewer than
\* max_unique_tags terms; an accepted new term joins the used set; a rejected
\* candidate is skipped and the walk goes on; accepted terms keep candidate
\* order.  For D1=[go,go,rust], D2=[rust,proxy], D3=[proxy,cache],
\* tag_count=1, budget=2 the result is D1=[go], D2=[rust], D3=[].
C3_GreedyAcceptance == [][C3_VisitFollowsRule /\ C3_ExampleResult']_vars

\* The example of the spec, run to its end by the textrank allocator.
C3_ExampleRun ==
    /\ docs = ExampleCorpus
    /\ tag_method = "textrank"
    /\ tag_count = 1
    /\ max_unique_tags = 2
    /\ tpc = "returned"
    /\ returned = << <<go>>, <<rust>>, <<>> >>
    /\ used_global = {go, rust}

\* C4: a second build_index call on the same files, with the same tag_count
\* and max_unique_tags, returns the mapping the first call returned, and it
\* starts from an empty used set: nothing of the first pass carries over.
C4_RerunIdentical ==
    /\ tpc = "returned" => \A k \in 1..Len(prev_returned) : prev_returned[k] = returned
    /\ (tpc = "outer" /\ doc_i = 1) => used_global = {}

\* A second pass has returned; the first one filled the budget.
C4_SecondPassDone ==
    /\ tpc = "returned"
    /\ calls = 2
    /\ Len(prev_returned) = 1
    /\ prev_returned[1] = returned
    /\ max_unique_tags >= 1
    /\ Cardinality(used_global) = max_unique_tags
    /\ \E d \in DOMAIN returned : returned[d] # <<>>

\* C5: no tag list of any of the three allocators holds a term shorter than
\* 2 characters, a purely numeric term, a term containing '/' or '\', or a
\* term whose lower-cased form is a stopword.
C5_NoFilteredTermInTags ==
    \A d \in DOMAIN tags_by_path :
        \A k \in 1..Len(tags_by_path[d]) :
            LET t == tags_by_path[d][k]
            IN  /\ Len(t) >= 2
                /\ ~IsDigit(t)
                /\ ~IsPathLike(t)
                /\ Lower(t) \notin _TAG_STOPWORDS

\* C16 (state): in the tfidf and textrank walks every candidate passed so
\* far is in picked, or is empty, a stopword, or a new term with the budget
\* full.
C16_PassedWereRejected ==
    (tpc = "inner" /\ tag_method \in {"tfidf", "textrank"}) =>
        \A j \in 1..(cand_j - 1) :
            LET w == LoopWord(tag_method, CurCands[j])
            IN  \/ \E k \in 1..Len(picked) : picked[k] = w
                \/ w = <<>>
                \/ Lower(w) \in _TAG_STOPWORDS
                \/ /\ Lower(w) \notin used_global
                   /\ Cardinality(used_global) >= max_unique_tags

\* C16 (step): the walk of a document ends with tag_count terms picked or
\* with every candidate passed, and the list stored is the picked list.
C16_WalkEnds ==
    (tpc = "inner" /\ tpc' = "outer") =>
        /\ doc_i \in DOMAIN tags_by_path'
        /\ tags_by_path'[doc_i] = picked'
        /\ \/ Len(picked') >= tag_count
           \/ cand_j > Len(CurCands) /\ picked' = picked

\* C16: a document gets fewer than tag_count tags only when all its
\* candidates were examined and each one not picked was rejected.
C16_FewerOnlyWhenExhausted == []C16_PassedWereRejected /\ [][C16_WalkEnds]_vars

C16_ShortListAfterRejection ==
    /\ tpc = "returned"
    /\ tag_method \in {"tfidf", "textrank"}
    /\ \E d \in DOMAIN returned :
          /\ Len(returned[d]) < tag_count
          /\ Len(returned[d]) >= 1
          /\ Len(Candidates(tag_method, docs[d], tag_count)) > Len(returned[d])

\* The lower-cased terms of an index, and those a file list can offer.
C18_UsedTerms(index) ==
    UNION { {Lower(index[d][k]) : k \in 1..Len(index[d])} : d \in DOMAIN index }

C18_AllTerms ==
    UNION { {Lower(LoopWord(tag_method, c)) :
                c \in {Candidates(tag_method, docs[d], tag_count)[j] :
                          j \in 1..Len(Candidates(tag_method, docs[d], tag_count))}} :
            d \in 1..Len(docs) }

\* The mapping of the call before, keyed by the positions of this call.
C18_Before ==
    LET prev == prev_returned[Len(prev_returned)]
    IN  [d \in DOMAIN prev |-> prev[Len(docs) + 1 - d]]

\* C18: a call on the files in the opposite order returns the same tag lists
\* when the order is in fact the same one, and when the budget cannot bind
\* (the files offer no more than max_unique_tags terms); in the other cases
\* the lists and the used terms can differ (C18_OrderChangesResult).
C18_OrderMattersOnlyThroughBudget ==
    (tpc = "returned" /\ calls >= 2) =>
        ( (Reverse(docs) = docs \/ Cardinality(C18_AllTerms) <= max_unique_tags)
            => returned = C18_Before )

C18_OrderChangesResult ==
    /\ tpc = "returned"
    /\ calls = 2
    /\ returned # C18_Before
    /\ C18_UsedTerms(returned) # C18_UsedTerms(C18_Before)

\* The lower-cased terms of the tag lists of an index.
C23_Terms(index) ==
    UNION { {Lower(index[d][k]) : k \in 1..Len(index[d])} : d \in DOMAIN index }

\* C23 (state): between two documents and at the end of a pass the terms of
\* the tag lists assigned so far are exactly used_global, and there are no
\* more than max_unique_tags of them.
C23_TagsAreUsedSet ==
    tpc \in {"outer", "returned"} =>
        /\ C23_Terms(tags_by_path) = used_global
        /\ Cardinality(C23_Terms(tags_by_path)) <= max_unique_tags

\* C23 (step): a term appended to picked while the used set is full is a
\* term of the set.
C23_FullSetOnlyReuses ==
    (tpc = "inner" /\ Len(picked') = Len(picked) + 1
        /\ Cardinality(used_global) >= max_unique_tags)
      => Lower(picked'[Len(picked')]) \in used_global

\* C23: after each document the lower-cased terms of the assigned tag lists
\* equal the global used set, so they never number more than
\* max_unique_tags, and once the set is full every tag assigned is in it.
C23_AssignedEqualsUsed == []C23_TagsAreUsedSet /\ [][C23_FullSetOnlyReuses]_vars

\* The set was full after the first document, and the second one still got
\* a tag.
C23_ReusedAfterFull ==
    /\ tpc = "returned"
    /\ DOMAIN returned = {1, 2}
    /\ max_unique_tags > 0
    /\ Cardinality(C23_Terms([d \in {1} |-> returned[1]])) = max_unique_tags
    /\ returned[2] # <<>>

\* No two places of the list hold the same term when lower-cased.
C24_NoRepeat(q) ==
    \A j \in 1..Len(q) : \A k \in 1..Len(q) : j # k => Lower(q[j]) # Lower(q[k])

\* The words the loop of the method sees for the file, in rank order.
C24_Offered(d) ==
    LET c == Candidates(tag_method, docs[d], tag_count)
    IN  [j \in 1..Len(c) |-> LoopWord(tag_method, c[j])]

\* C24 (as stated): no tag list of any of the three allocators holds the
\* same lower-cased term twice, whatever the candidate list holds.
C24_NoRepeatedTag ==
    \A d \in DOMAIN tags_by_path : C24_NoRepeat(tags_by_path[d])

\* C24 (amended): no tag list of the tfidf and keybert allocators holds the
\* same lower-cased term twice, whatever the candidates; a tag list of the
\* textrank allocator holds none twice when the keywords handed to its loop
\* hold none twice.
C24_NoRepeatedTagWhereDeduped ==
    \A d \in DOMAIN tags_by_path :
        (tag_method # "textrank" \/ C24_NoRepeat(C24_Offered(d)))
            => C24_NoRepeat(tags_by_path[d])

\* keybert was offered a term in two letter cases and assigned it once.
C24_RepeatDropped ==
    /\ tpc = "returned"
    /\ tag_method = "keybert"
    /\ tag_count = 2
    /\ max_unique_tags = 2
    /\ docs = << <<go, Go>> >>
    /\ returned = << <<go>> >>

\* =================================================== the git time index
MaxTs == 3
MaxInterest == 2

Names == {"a.md", "b.md", "x.md"}

NoName == ""

\* The status field of a --name-status line.
StA == <<"A">>
StM == <<"M">>
StD == <<"D">>
StR == <<"R", "1", "0", "0">>
Junk == <<"j">>

\* The lines of the git log output: a marker line with a timestamp that
\* parses, one that does not, an empty line, and a line split at its tabs.
TsLine(n) == [kind |-> "ts", ts |-> n, parts |-> <<>>]
BadTsLine == [kind |-> "badts", ts |-> 0, parts |-> <<>>]
BlankLine == [kind |-> "blank", ts |-> 0, parts |-> <<>>]
ChangeLine(fields) == [kind |-> "change", ts |-> 0, parts |-> fields]

ChangeParts ==
    {<<st, n>> : st \in {StA, StM, StD}, n \in Names}
        \cup ({<<StR, o, n>> : o \in Names, n \in Names} \ {<<StR, n, n>> : n \in Names})
        \cup {<<StR, o>> : o \in Names}
        \cup {<<Junk>>}

Lines ==
    {TsLine(n) : n \in 1..MaxTs} \cup {BadTsLine, BlankLine}
        \cup {ChangeLine(f) : f \in ChangeParts}

\* d[k] = v
DictPut(d, k, v) == [e \in DOMAIN d \cup {k} |-> IF e = k THEN v ELSE d[e]]

\* (mutant) the largest value seen is kept
SetDefaultKeepsLargest(d, k, v) ==
    IF k \in DOMAIN d /\ d[k] >= v THEN d ELSE DictPut(d, k, v)

\* (mutant) setdefault that overwrites a present key
SetDefaultOverwrites(d, k, v) == DictPut(d, k, v)

\* d.setdefault(k, v)
SetDefault(d, k, v) == IF k \in DOMAIN d THEN d ELSE DictPut(d, k, v)

\* status.startswith('R')
StartsWithR(status) == status # <<>> /\ Head(status) = "R"

\* (mutant) a marker line that does not parse leaves current_ts as it was
NextTsKeepsOld(ts, line) == IF line.kind = "ts" THEN <<line.ts>> ELSE ts

\* current_ts after the line: set by a marker line, None when it does not parse
NextTs(ts, line) ==
    CASE line.kind = "ts" -> <<line.ts>>
      [] line.kind = "badts" -> <<>>
      [] OTHER -> ts

\* A line that reaches s.split('\t'): not empty, no marker, current_ts set.
ReachesSplit(ts, line) == line.kind = "change" /\ ts # <<>>

\* --------------------------------------- proc.py: _build_git_time_index
\* status.startswith('R') and len(parts) >= 3
IsRenameLine(fields) == StartsWithR(fields[1]) /\ Len(fields) >= 3

\* The name looked up: new_name of a rename, parts[1] of any other line.
LookedUp(fields) == IF IsRenameLine(fields) THEN fields[3] ELSE fields[2]

\* final: the name itself when of interest, else one back_trace hop
ProcLookup(bt, interest, name) ==
    IF name \in interest THEN <<name>>
    ELSE IF name \in DOMAIN bt /\ bt[name] \in interest THEN <<bt[name]>>
    ELSE <<>>

\* final of the line, <<>> when the loop body continues without attributing
ProcFinal(bt, interest, ts, line) ==
    IF ~ReachesSplit(ts, line) \/ Len(line.parts) < 2 THEN <<>>
    ELSE ProcLookup(bt, interest, LookedUp(line.parts))

\* (mutant) an alias is registered only for an old name of interest
RegisterOnlyInterest(bt, old, final) ==
    IF old \in interest_paths THEN DictPut(bt, old, final) ELSE bt

\* back_trace[old_name] = final
Register(bt, old, final) == DictPut(bt, old, final)

\* One iteration of the loop over the lines of the output file.
ProcLine(line) ==
    LET f == ProcFinal(back_trace, interest_paths, current_ts, line)
    IN  IF f = <<>>
          THEN UNCHANGED <<back_trace, updated, created>>
          ELSE /\ back_trace' =
                     IF IsRenameLine(line.parts)
                       THEN Register(back_trace, line.parts[2], f[1])
                       ELSE back_trace
               /\ updated' = SetDefault(updated, f[1], current_ts[1])
               /\ created' = DictPut(created, f[1], current_ts[1])

\* (mutant) an entry for every interest path
BuildResultEveryPath(interest, cre, upd) ==
    [k \in interest |->
        IF k \in DOMAIN cre /\ k \in DOMAIN upd THEN <<cre[k], upd[k]>> ELSE <<0, 0>>]

\* result[k] = (c, u) for the interest paths with both
BuildResult(interest, cre, upd) ==
    [k \in {n \in interest : n \in DOMAIN cre /\ n \in DOMAIN upd} |-> <<cre[k], upd[k]>>]

\* ------------------------------------------- what the stream has been
Min2(a, b) == IF a <= b THEN a ELSE b

\* The stream stays newest-first with A/M/D records only.
StreamStaysAMD(line) ==
    /\ amd_class
    /\ CASE line.kind = "blank" -> TRUE
         [] line.kind = "ts" -> current_ts = <<>> \/ line.ts <= current_ts[1]
         [] line.kind = "badts" -> FALSE
         [] OTHER ->
              /\ current_ts # <<>>
              /\ Len(line.parts) = 2
              /\ line.parts[1] \in {StA, StM, StD}

StreamStep(line) ==
    /\ marker_ok' = CASE line.kind = "ts" -> TRUE
                       [] line.kind = "badts" -> FALSE
                       [] OTHER -> marker_ok
    /\ amd_class' = StreamStaysAMD(line)
    /\ amd_seen' =
          IF ~StreamStaysAMD(line) THEN <<>>
          ELSE IF line.kind # "change" THEN amd_seen
          ELSE LET n == line.parts[2]
                   t == current_ts[1]
               IN  IF n \in DOMAIN amd_seen
                     THEN DictPut(amd_seen, n,
                                  <<Min2(amd_seen[n][1], t), Max2(amd_seen[n][2], t)>>)
                     ELSE DictPut(amd_seen, n, <<t, t>>)

\* The stream stays the replay of a linear history, one change a commit,
\* commit timestamps increasing with time, files added, modified and
\* renamed: walking back, a record names a file of the tree, and the old
\* name of a rename is free.
HistStays(line) ==
    CASE line.kind = "blank" -> hist_class # "off"
      [] line.kind = "ts" ->
            hist_class = "ts" /\ (current_ts = <<>> \/ line.ts < current_ts[1])
      [] line.kind = "badts" -> FALSE
      [] OTHER ->
            /\ hist_class = "change"
            /\ current_ts # <<>>
            /\ LET f == line.parts
               IN  \/ Len(f) = 2 /\ f[1] \in {StA, StM} /\ holder[f[2]] # NoName
                   \/ Len(f) = 3 /\ f[1] = StR /\ holder[f[3]] # NoName
                                 /\ holder[f[2]] = NoName

HistStep(line) ==
    IF ~HistStays(line)
      THEN /\ hist_class' = "off"
           /\ holder' = [n \in Names |-> NoName]
           /\ truth' = [n \in tree0 |-> <<0, 0>>]
           /\ UNCHANGED tree0
      ELSE IF line.kind = "blank" THEN UNCHANGED histVars
      ELSE IF line.kind = "ts" THEN hist_class' = "change" /\ UNCHANGED <<tree0, holder, truth>>
      ELSE LET f == line.parts
               name == LookedUp(f)
               file == holder[name]
               t == current_ts[1]
           IN  /\ hist_class' = "ts"
               /\ truth' = [truth EXCEPT ![file] =
                               << IF f[1] = StA THEN t ELSE @[1],
                                  IF @[2] = 0 THEN t ELSE @[2] >>]
               /\ holder' =
                     IF f[1] = StA THEN [holder EXCEPT ![name] = NoName]
                     ELSE IF f[1] = StR
                       THEN [holder EXCEPT ![f[2]] = file, ![name] = NoName]
                     ELSE holder
               /\ UNCHANGED tree0

\* Every file of the current tree has been walked back to its addition.
HistComplete == hist_class = "ts" /\ \A n \in Names : holder[n] = NoName

\* ----------------------------------------------- proc.py: the builder
\* Exit statuses of git log: success, and two failures.
ReturnCodes == {0, 1, 128}

\* (mutant) the exit status is not looked at
GitFailedNever(rc) == FALSE

\* cp.returncode != 0
GitFailed(rc) == rc # 0

\* Up to the loop over the lines: no interest path returns {}; git log writes
\* the temporary file; a non-zero exit returns {} through the finally clause,
\* which unlinks the file.
ProcStart ==
    IF interest_paths = {}
      THEN gpc' = "done" /\ result' = <<>> /\ UNCHANGED <<returncode, tmp_file>>
      ELSE \E rc \in ReturnCodes :
              /\ returncode' = <<rc>>
              /\ IF GitFailed(rc)
                   THEN gpc' = "done" /\ result' = <<>> /\ tmp_file' = "removed"
                   ELSE gpc' = "scan" /\ tmp_file' = "written" /\ UNCHANGED result

ProcCall ==
    /\ gpc = "idle"
    /\ ProcStart
    /\ UNCHANGED <<interest_paths, current_ts, back_trace, updated, created,
                   postsVars, streamVars, histVars, chain, tagVars, fullVars, dirVars, extVars>>

ProcReadLine ==
    /\ gpc = "scan"
    /\ \E line \in Lines :
          /\ current_ts' = NextTs(current_ts, line)
          /\ ProcLine(line)
          /\ StreamStep(line)
          /\ HistStep(line)
    /\ UNCHANGED <<interest_paths, gpc, result, returncode, tmp_file, postsVars, chain,
                   tagVars, fullVars, dirVars, extVars>>

\* The output is exhausted: the file is unlinked, the result is assembled
\* and returned.
ProcReturn ==
    /\ gpc = "scan"
    /\ gpc' = "done"
    /\ tmp_file' = "removed"
    /\ result' = BuildResult(interest_paths, created, updated)
    /\ UNCHANGED <<returncode, interest_paths, current_ts, back_trace, updated, created,
                   postsVars, streamVars, histVars, chain, tagVars, fullVars, dirVars, extVars>>

TagIdle ==
    /\ tag_method = "tfidf"
    /\ tag_count = 0
    /\ max_unique_tags = 0
    /\ docs = <<>>
    /\ tpc = "idle"
    /\ doc_i = 1
    /\ cand_j = 1
    /\ picked = <<>>
    /\ seen_local = {}
    /\ used_global = {}
    /\ tags_by_path = <<>>
    /\ returned = <<>>
    /\ prev_returned = <<>>
    /\ calls = 0

\* The builders' locals at the call, for an interest set and a current tree.
\* The state at the call: the interest paths given, every table empty.
BuilderInit ==
    /\ interest_paths \in {i \in SUBSET Names : Cardinality(i) <= MaxInterest}
    /\ current_ts = <<>>
    /\ gpc = "idle"
    /\ back_trace = <<>>
    /\ updated = <<>>
    /\ created = <<>>
    /\ result = <<>>
    /\ returncode = <<>>
    /\ tmp_file = "none"
    /\ ppc = "idle"
    /\ back_alias = <<>>
    /\ p_updated = <<>>
    /\ p_created = <<>>
    /\ done = {}
    /\ p_result = <<>>

\* Nothing is recorded about the stream.
NoStreamRecord ==
    /\ amd_seen = <<>>
    /\ amd_class = FALSE
    /\ marker_ok = FALSE
    /\ tree0 = {}
    /\ holder = <<>>
    /\ truth = <<>>
    /\ hist_class = "off"

ProcInit ==
    /\ TagIdle
    /\ BuilderInit
    /\ tree0 \in {t \in SUBSET Names : interest_paths \subseteq t}
    /\ amd_seen = <<>>
    /\ amd_class = TRUE
    /\ marker_ok = FALSE
    /\ holder = [n \in Names |-> IF n \in tree0 THEN n ELSE NoName]
    /\ truth = [n \in tree0 |-> <<0, 0>>]
    /\ hist_class = "ts"
    /\ chain = <<>>
    /\ FullIdle
    /\ DirIdle
    /\ ExtIdle

ProcNext ==
    \/ ProcCall
    \/ ProcReadLine
    \/ ProcReturn

SpecProc == ProcInit /\ [][ProcNext]_vars

\* ------------------------------ process_posts.py: _build_git_time_index
\* The while loop of resolve_final: the names passed, the name reached, and
\* whether the walk comes back to a name it passed (it then never ends).
RECURSIVE Walk(_, _, _)
Walk(alias, cur, passed) ==
    IF cur \notin DOMAIN alias THEN [chain |-> passed, final |-> cur, loops |-> FALSE]
    ELSE IF cur \in Range(passed) THEN [chain |-> passed, final |-> cur, loops |-> TRUE]
    ELSE Walk(alias, alias[cur], Append(passed, cur))

\* (mutant) resolve_final without its second loop: the table is left as it is
ResolveFinalKeepsTable(alias, name) ==
    LET w == Walk(alias, name, <<>>)
    IN  [final |-> w.final, loops |-> w.loops, alias |-> alias]

\* resolve_final(name): the final name and back_alias after path compression
resolve_final(alias, name) ==
    LET w == Walk(alias, name, <<>>)
    IN  [ final |-> w.final,
          loops |-> w.loops,
          alias |-> [n \in DOMAIN alias |->
                        IF n \in Range(w.chain) THEN w.final ELSE alias[n]] ]

\* One iteration of the loop over p.stdout.
PostsLine(line) ==
    IF ~ReachesSplit(current_ts, line)
         \/ (~IsRenameLine(line.parts) /\ Len(line.parts) < 2)
      THEN UNCHANGED <<ppc, back_alias, p_updated, p_created, done>>
      ELSE
        LET f == line.parts
            r == resolve_final(back_alias, LookedUp(f))
            t == current_ts[1]
        IN  IF r.loops
              THEN ppc' = "hung" /\ UNCHANGED <<back_alias, p_updated, p_created, done>>
            ELSE IF r.final \notin interest_paths
              THEN back_alias' = r.alias /\ UNCHANGED <<ppc, p_updated, p_created, done>>
            ELSE IF IsRenameLine(f)
              THEN /\ back_alias' = DictPut(r.alias, f[2], r.final)
                   /\ p_updated' = SetDefault(p_updated, r.final, t)
                   /\ p_created' = DictPut(p_created, r.final, t)
                   /\ UNCHANGED <<ppc, done>>
            ELSE /\ back_alias' = r.alias
                 /\ p_updated' = SetDefault(p_updated, r.final, t)
                 /\ p_created' = DictPut(p_created, r.final, t)
                 /\ done' = IF f[1] = StA THEN done \cup {r.final} ELSE done
                 /\ ppc' = IF f[1] = StA /\ Cardinality(done') = Cardinality(interest_paths)
                             THEN "stopped" ELSE ppc

PostsCall ==
    /\ ppc = "idle"
    /\ IF interest_paths = {}
         THEN ppc' = "done" /\ p_result' = <<>>
         ELSE ppc' = "scan" /\ UNCHANGED p_result
    /\ UNCHANGED <<interest_paths, current_ts, back_alias, p_updated, p_created, done,
                   procVars, streamVars, histVars, chain, tagVars, fullVars, dirVars, extVars>>

PostsReadLine ==
    /\ ppc = "scan"
    /\ \E line \in Lines :
          /\ current_ts' = NextTs(current_ts, line)
          /\ PostsLine(line)
    /\ UNCHANGED <<interest_paths, p_result, procVars, streamVars, histVars, chain, tagVars, fullVars, dirVars, extVars>>

\* The output is exhausted, or the loop was left by its break.
PostsReturn ==
    /\ ppc \in {"scan", "stopped"}
    /\ ppc' = "done"
    /\ p_result' = BuildResult(interest_paths, p_created, p_updated)
    /\ UNCHANGED <<interest_paths, current_ts, back_alias, p_updated, p_created, done,
                   procVars, streamVars, histVars, chain, tagVars, fullVars, dirVars, extVars>>

PostsInit ==
    TagIdle /\ BuilderInit /\ NoStreamRecord /\ chain = <<>> /\ FullIdle /\ DirIdle
        /\ ExtIdle

PostsNext ==
    \/ PostsCall
    \/ PostsReadLine
    \/ PostsReturn

SpecPosts == PostsInit /\ [][PostsNext]_vars

\* ------------------------------ process_posts.py: the calls of resolve_final
\* The call made for the line, when the loop body reaches one that returns.
ResolveCall(line) ==
    IF ~ReachesSplit(current_ts, line)
         \/ (~IsRenameLine(line.parts) /\ Len(line.parts) < 2)
      THEN <<>>
      ELSE LET r == resolve_final(back_alias, LookedUp(line.parts))
           IN  IF r.loops THEN <<>>
               ELSE << [ name |-> LookedUp(line.parts), before |-> back_alias,
                         after |-> r.alias, final |-> r.final ] >>

\* A line is read, and the call of resolve_final it makes is recorded.
ResolveReadLine ==
    /\ ppc = "scan"
    /\ \E line \in Lines :
          /\ current_ts' = NextTs(current_ts, line)
          /\ PostsLine(line)
          /\ resolved' = ResolveCall(line)
    /\ UNCHANGED <<interest_paths, p_result, procVars, streamVars, histVars, chain,
                   tagVars, fullVars, dirVars, cache0, coverVars, syncVars>>

ResolveNext ==
    \/ PostsCall
    \/ ResolveReadLine
    \/ PostsReturn

SpecResolve == PostsInit /\ [][ResolveNext]_vars

\* ------------------- process_posts.py's loop next to a scan that never breaks
\* The end-to-end stream: Added b.md, Renamed a.md -> b.md, Added a.md, at the
\* timestamps 3 > 2 > 1.
ExampleStream ==
    << TsLine(3), ChangeLine(<<StA, "b.md">>),
       TsLine(2), ChangeLine(<<StR, "a.md", "b.md">>),
       TsLine(1), ChangeLine(<<StA, "a.md">>) >>

\* The stream stays newest-first: no timestamp above the last one.
NewestFirst(line) == line.kind = "ts" => line.ts <= f_last

\* ex_pos = <<k>> while the lines read are the first k of ExampleStream.
ExampleStep(line) ==
    IF ex_pos # <<>> /\ ex_pos[1] < Len(ExampleStream)
                    /\ line = ExampleStream[ex_pos[1] + 1]
      THEN <<ex_pos[1] + 1>>
      ELSE <<>>

\* One iteration of the loop over p.stdout without its break: the rule of
\* PostsLine on the tables of the whole-stream scan.
FullLine(line) ==
    /\ f_last' = IF line.kind = "ts" THEN line.ts ELSE f_last
    /\ ex_pos' = ExampleStep(line)
    /\ IF ~ReachesSplit(current_ts, line)
            \/ (~IsRenameLine(line.parts) /\ Len(line.parts) < 2)
         THEN UNCHANGED <<f_pc, f_alias, f_updated, f_created>>
         ELSE
           LET f == line.parts
               r == resolve_final(f_alias, LookedUp(f))
               t == current_ts[1]
           IN  IF r.loops
                 THEN f_pc' = "hung" /\ UNCHANGED <<f_alias, f_updated, f_created>>
               ELSE IF r.final \notin interest_paths
                 THEN f_alias' = r.alias /\ UNCHANGED <<f_pc, f_updated, f_created>>
               ELSE /\ f_alias' = IF IsRenameLine(f)
                                    THEN DictPut(r.alias, f[2], r.final) ELSE r.alias
                    /\ f_updated' = SetDefault(f_updated, r.final, t)
                    /\ f_created' = DictPut(f_created, r.final, t)
                    /\ UNCHANGED f_pc

StopCall ==
    /\ ppc = "idle"
    /\ IF interest_paths = {}
         THEN ppc' = "done" /\ p_result' = <<>> /\ f_pc' = "done"
         ELSE ppc' = "scan" /\ UNCHANGED p_result /\ f_pc' = "scan"
    /\ UNCHANGED <<interest_paths, current_ts, back_alias, p_updated, p_created, done,
                   f_alias, f_updated, f_created, f_last, ex_pos,
                   procVars, streamVars, histVars, chain, tagVars, dirVars, extVars>>

\* A line of a newest-first stream, read by the loop and by the scan.
StopReadLine ==
    /\ ppc = "scan"
    /\ \E line \in Lines :
          /\ NewestFirst(line)
          /\ current_ts' = NextTs(current_ts, line)
          /\ PostsLine(line)
          /\ FullLine(line)
    /\ UNCHANGED <<interest_paths, p_result, procVars, streamVars, histVars, chain,
                   tagVars, dirVars, extVars>>

\* A line that git log emits after the break: only the scan reads it.
StopRestLine ==
    /\ ppc = "stopped" /\ f_pc = "scan"
    /\ \E line \in Lines :
          /\ NewestFirst(line)
          /\ current_ts' = NextTs(current_ts, line)
          /\ FullLine(line)
    /\ UNCHANGED <<interest_paths, postsVars, procVars, streamVars, histVars, chain,
                   tagVars, dirVars, extVars>>

\* The stream ends: process_posts.py returns its result.
StopReturn ==
    /\ ppc \in {"scan", "stopped"} /\ f_pc = "scan"
    /\ ppc' = "done"
    /\ f_pc' = "done"
    /\ p_result' = BuildResult(interest_paths, p_created, p_updated)
    /\ UNCHANGED <<interest_paths, current_ts, back_alias, p_updated, p_created, done,
                   f_alias, f_updated, f_created, f_last, ex_pos,
                   procVars, streamVars, histVars, chain, tagVars, dirVars, extVars>>

StopInit ==
    /\ TagIdle /\ BuilderInit /\ NoStreamRecord /\ chain = <<>> /\ DirIdle /\ ExtIdle
    /\ f_alias = <<>>
    /\ f_updated = <<>>
    /\ f_created = <<>>
    /\ f_pc = "idle"
    /\ f_last = MaxTs
    /\ ex_pos = <<0>>

StopNext ==
    \/ StopCall
    \/ StopReadLine
    \/ StopRestLine
    \/ StopReturn

SpecStop == StopInit /\ [][StopNext]_vars

\* ------------- proc.py's loop next to process_posts.py's loop without its break
\* Both builders are called for the same interest paths; git log succeeds.
SameCall ==
    /\ gpc = "idle" /\ f_pc = "idle"
    /\ IF interest_paths = {}
         THEN /\ gpc' = "done" /\ result' = <<>> /\ f_pc' = "done"
              /\ UNCHANGED <<returncode, tmp_file>>
         ELSE /\ gpc' = "scan" /\ f_pc' = "scan"
              /\ returncode' = <<0>> /\ tmp_file' = "written"
              /\ UNCHANGED result
    /\ UNCHANGED <<interest_paths, current_ts, back_trace, updated, created, postsVars,
                   f_alias, f_updated, f_created, f_last, ex_pos,
                   streamVars, histVars, chain, tagVars, dirVars, extVars>>

\* Both loops take the same line of a newest-first stream.
SameReadLine ==
    /\ gpc = "scan" /\ f_pc = "scan"
    /\ \E line \in Lines :
          /\ NewestFirst(line)
          /\ current_ts' = NextTs(current_ts, line)
          /\ ProcLine(line)
          /\ FullLine(line)
    /\ UNCHANGED <<interest_paths, gpc, result, returncode, tmp_file, postsVars,
                   streamVars, histVars, chain, tagVars, dirVars, extVars>>

\* The stream ends: proc.py returns, and so does the other loop unless a call
\* of resolve_final did not come back.
SameReturn ==
    /\ gpc = "scan"
    /\ gpc' = "done"
    /\ tmp_file' = "removed"
    /\ result' = BuildResult(interest_paths, created, updated)
    /\ f_pc' = IF f_pc = "hung" THEN "hung" ELSE "done"
    /\ UNCHANGED <<returncode, interest_paths, current_ts, back_trace, updated, created,
                   postsVars, f_alias, f_updated, f_created, f_last, ex_pos,
                   streamVars, histVars, chain, tagVars, dirVars, extVars>>

SameInit ==
    /\ TagIdle /\ BuilderInit /\ NoStreamRecord /\ chain = <<>> /\ DirIdle /\ ExtIdle
    /\ f_alias = <<>>
    /\ f_updated = <<>>
    /\ f_created = <<>>
    /\ f_pc = "idle"
    /\ f_last = MaxTs
    /\ ex_pos = <<>>

SameNext ==
    \/ SameCall
    \/ SameReadLine
    \/ SameReturn

SpecSame == SameInit /\ [][SameNext]_vars

\* ------------------------------------ proc.py: process_directory, process_file
\* --tag-method values: the three extractors, the disabled selection as typed
\* and with another case and padding, the empty string, an unknown name.
m_tfidf == <<"t", "f", "i", "d", "f">>
m_textrank == <<"t", "e", "x", "t", "r", "a", "n", "k">>
m_keybert == <<"k", "e", "y", "b", "e", "r", "t">>
m_none == <<"n", "o", "n", "e">>
m_off == <<"o", "f", "f">>
m_false == <<"f", "a", "l", "s", "e">>
m_zero == <<"0">>
m_NonePadded == <<" ", "N", "o", "n", "e">>
m_unknown == <<"b", "m", "2", "5">>

CfgMethods == {m_tfidf, m_textrank, m_keybert, m_none, m_NonePadded, <<>>, m_unknown}

\* _TAG_EXTRACTORS.get(m): the extractor registered under the name
Registered(m) ==
    CASE m = m_tfidf -> <<"tfidf">>
      [] m = m_textrank -> <<"textrank">>
      [] m = m_keybert -> <<"keybert">>
      [] OTHER -> <<>>

\* (mutant) a disabled selection falls back to the default extractor
GetExtractorDefaults(method) ==
    LET m == Strip(Lower(IF method = <<>> THEN m_tfidf ELSE method))
    IN  IF m \in {m_none, m_off, m_false, m_zero} THEN <<"tfidf">> ELSE Registered(m)

\* _get_tag_extractor(method): <<>> for None
_get_tag_extractor(method) ==
    LET m == Strip(Lower(IF method = <<>> THEN m_tfidf ELSE method))
    IN  IF m \in {m_none, m_off, m_false, m_zero} THEN <<>> ELSE Registered(m)

\* sorted(...): the files in path order
NameOrder == <<"a.md", "b.md">>

Sorted(S) == SelectSeq(NameOrder, LAMBDA n : n \in S)

\* Times a history query or the batch index can give, and values of time.time().
DirTimes == {<<1, 1>>, <<1, 2>>}
NowValues == {8, 9}
CfgTimestamps == {<<>>, <<5>>}
DirWords == {<<go, rust>>, <<rust>>}

\* (mutant) the files are rewritten first, the indexes are built after
PhaseAfterFilesFirst(ph) ==
    CASE ph = "start" -> "files"
      [] ph = "files" -> "tags"
      [] ph = "tags" -> "git"
      [] OTHER -> "done"

\* The order of process_directory: tag index, git time index, the files.
PhaseAfter(ph) ==
    CASE ph = "start" -> "tags"
      [] ph = "tags" -> "git"
      [] ph = "git" -> "files"
      [] OTHER -> "done"

\* cfg.tag_count > 0 and files, and an extractor is selected
WantsTags ==
    tag_count > 0 /\ files # <<>> /\ _get_tag_extractor(cfg.tag_method) # <<>>

\* dict.update
DictUpdate(d, e) == [k \in DOMAIN d \cup DOMAIN e |-> IF k \in DOMAIN e THEN e[k] ELSE d[k]]

\* (mutant) the fallback is the current time whatever cfg.timestamp is
EpochFallbackNow(ts, now) == now

\* int(cfg.timestamp if cfg.timestamp is not None else int(time.time()))
EpochFallback(ts, now) == IF ts # <<>> THEN ts[1] ELSE now

\* process_directory up to the file list: a missing target returns 0.
DirCall ==
    /\ dpc = "start"
    /\ dpc' = IF cfg.target_exists THEN PhaseAfter("start") ELSE "done"
    /\ UNCHANGED <<files, cfg, _time_cache, _tags_by_path, file_i, written, raised,
                   tags_read, notes_log, tagVars, gitVars, fullVars, extVars>>

\* No tag index is asked for: the block is skipped.
DirSkipTags ==
    /\ dpc = "tags"
    /\ ~WantsTags
    /\ dpc' = PhaseAfter("tags")
    /\ UNCHANGED <<files, cfg, _time_cache, _tags_by_path, file_i, written, raised,
                   tags_read, notes_log, tagVars, gitVars, fullVars, extVars>>

\* extractor.build_index(files=files, ...) is called.
DirBuildIndex ==
    /\ dpc = "tags"
    /\ WantsTags
    /\ tpc = "idle"
    /\ BuildIndex

\* build_index has returned: cfg._tags_by_path.update(...), keyed by path.
DirTagsDone ==
    /\ dpc = "tags"
    /\ tpc = "returned"
    /\ _tags_by_path' =
          DictUpdate(_tags_by_path, [n \in {files[i] : i \in DOMAIN returned} |->
                                        returned[CHOOSE i \in DOMAIN returned : files[i] = n]])
    /\ tags_read' = DOMAIN written
    /\ dpc' = PhaseAfter("tags")
    /\ UNCHANGED <<files, cfg, _time_cache, file_i, written, raised, notes_log,
                   tagVars, gitVars, fullVars, extVars>>

\* (mutant) the batch index is built for every interest path
MissingEveryPath(fs, tc) == Range(fs)

\* missing = {x for x in interest if x not in cfg._time_cache}
Missing(fs, tc) == Range(fs) \ DOMAIN tc

\* The batch index: built for the files missing from the cache, and merged.
DirGit ==
    /\ dpc = "git"
    /\ LET missing == Missing(files, _time_cache)
       IN  IF cfg.git_batch /\ files # <<>> /\ missing # {}
             THEN \E keys \in SUBSET missing : \E idx \in [keys -> DirTimes] :
                      _time_cache' = DictUpdate(_time_cache, idx)
             ELSE UNCHANGED _time_cache
    /\ dpc' = PhaseAfter("git")
    /\ UNCHANGED <<files, cfg, _tags_by_path, file_i, written, raised, tags_read,
                   notes_log, tagVars, gitVars, fullVars, extVars>>

\* (mutant) the answer of the query is cached before it is tested for None
CacheAfterQueryUntested(tc, rel, q) ==
    DictPut(tc, rel, IF q # <<>> THEN q[1] ELSE <<0, 0>>)

\* cfg._time_cache[rel_to_target] = times, in the branch where times is not None
CacheAfterQuery(tc, rel, q) == IF q # <<>> THEN DictPut(tc, rel, q[1]) ELSE tc

\* process_file(cfg, files[file_i])
DirProcessFile ==
    /\ dpc = "files"
    /\ file_i <= Len(files)
    /\ LET rel == files[file_i]
           tags == IF _tags_by_path # <<>> /\ rel \in DOMAIN _tags_by_path
                     THEN _tags_by_path[rel] ELSE <<>>
       IN  \E now \in NowValues :
             LET fb == EpochFallback(cfg.timestamp, now)
                 times == IF rel \in DOMAIN _time_cache THEN _time_cache[rel]
                          ELSE IF notes_log[rel] # <<>> THEN notes_log[rel][1]
                          ELSE <<fb, fb>>
             IN  IF rel \notin DOMAIN _time_cache /\ notes_log[rel] = <<>>
                      /\ cfg.require_git_history
                   THEN /\ dpc' = "raised"
                        /\ raised' = <<rel>>
                        /\ _time_cache' = CacheAfterQuery(_time_cache, rel, notes_log[rel])
                        /\ UNCHANGED <<written, file_i>>
                   ELSE /\ _time_cache' =
                              IF rel \notin DOMAIN _time_cache
                                THEN CacheAfterQuery(_time_cache, rel, notes_log[rel])
                                ELSE _time_cache
                        /\ written' = DictPut(written, rel,
                              [created |-> times[1], updated |-> times[2], tags |-> tags])
                        /\ file_i' = file_i + 1
                        /\ UNCHANGED <<dpc, raised>>
    /\ UNCHANGED <<files, cfg, _tags_by_path, tags_read, notes_log, tagVars, gitVars,
                   fullVars, extVars>>

\* The loop over files is exhausted.
DirFilesDone ==
    /\ dpc = "files"
    /\ file_i > Len(files)
    /\ dpc' = PhaseAfter("files")
    /\ file_i' = 1
    /\ UNCHANGED <<files, cfg, _time_cache, _tags_by_path, written, raised, tags_read,
                   notes_log, tagVars, gitVars, fullVars, extVars>>

\* The allocation pass inside build_index.
DirAllocate ==
    /\ dpc = "tags"
    /\ NextDoc \/ VisitCandidate \/ EndDoc \/ ReturnIndex

DirInit ==
    /\ GitIdle /\ FullIdle /\ ExtIdle
    /\ dpc = "start"
    /\ cfg \in [ target_exists : BOOLEAN, tag_method : CfgMethods, git_batch : BOOLEAN,
                  require_git_history : BOOLEAN, timestamp : CfgTimestamps ]
    /\ files \in {Sorted(S) : S \in SUBSET Range(NameOrder)}
    /\ cfg.target_exists \/ files = <<>>
    /\ docs \in [1..Len(files) -> DirWords]
    /\ notes_log \in [Range(files) -> {<<>>} \cup {<<t>> : t \in DirTimes}]
    /\ tag_method = IF _get_tag_extractor(cfg.tag_method) # <<>>
                      THEN _get_tag_extractor(cfg.tag_method)[1] ELSE "tfidf"
    /\ tag_count \in 0..MaxTagCount
    /\ max_unique_tags = MaxUniqueTags
    /\ tpc = "idle"
    /\ doc_i = 1
    /\ cand_j = 1
    /\ picked = <<>>
    /\ seen_local = {}
    /\ used_global = {}
    /\ tags_by_path = <<>>
    /\ returned = <<>>
    /\ prev_returned = <<>>
    /\ calls = 0
    /\ _time_cache = <<>>
    /\ _tags_by_path = <<>>
    /\ file_i = 1
    /\ written = <<>>
    /\ raised = <<>>
    /\ tags_read = {}

DirNext ==
    \/ DirCall
    \/ DirSkipTags
    \/ DirBuildIndex
    \/ DirAllocate
    \/ DirTagsDone
    \/ DirGit
    \/ DirProcessFile
    \/ DirFilesDone

SpecDir == DirInit /\ [][DirNext]_vars

\* ------------------------ process_directory on a cache filled by the caller
\* Times of the entries the caller provides.
CacheTimes == {<<3, 4>>}

\* process_directory is handed a cfg whose _time_cache holds entries; no
\* tag index is asked for.
CacheInit ==
    /\ GitIdle /\ FullIdle /\ CoverIdle /\ SyncIdle
    /\ resolved = <<>>
    /\ dpc = "start"
    /\ cfg \in [ target_exists : BOOLEAN, tag_method : {m_none}, git_batch : BOOLEAN,
                  require_git_history : BOOLEAN, timestamp : CfgTimestamps ]
    /\ files \in {Sorted(S) : S \in SUBSET Range(NameOrder)}
    /\ cfg.target_exists \/ files = <<>>
    /\ docs = <<>>
    /\ notes_log \in [Range(files) -> {<<>>} \cup {<<t>> : t \in DirTimes}]
    /\ tag_method = "tfidf"
    /\ tag_count = 0
    /\ max_unique_tags = MaxUniqueTags
    /\ tpc = "idle"
    /\ doc_i = 1
    /\ cand_j = 1
    /\ picked = <<>>
    /\ seen_local = {}
    /\ used_global = {}
    /\ tags_by_path = <<>>
    /\ returned = <<>>
    /\ prev_returned = <<>>
    /\ calls = 0
    /\ cache0 \in UNION {[S -> CacheTimes] : S \in SUBSET Range(NameOrder)}
    /\ _time_cache = cache0
    /\ _tags_by_path = <<>>
    /\ file_i = 1
    /\ written = <<>>
    /\ raised = <<>>
    /\ tags_read = {}

CacheNext ==
    \/ DirCall
    \/ DirSkipTags
    \/ DirGit
    \/ DirProcessFile
    \/ DirFilesDone

SpecCache == CacheInit /\ [][CacheNext]_vars

\* =========================================================== rename_covers.py
\* A file name is <<stem, suffix>>; an entry of the directory is a regular
\* file or a sub-directory, and a file carries the name it had when main was
\* called, which tells the files apart after they are renamed.
_IMAGE_SUFFIXES ==
    {".jpg", ".jpeg", ".png", ".gif", ".webp", ".bmp", ".tiff", ".tif", ".ico", ".avif",
     ".svg"}

b_png == <<"b", ".png">>
cover1_jpg == <<"cover-1", ".jpg">>
cover2_jpg == <<"cover-2", ".jpg">>
cover1_txt == <<"cover-1", ".txt">>

\* The names an entry of the directory can have when main is called.
CoverNames == {b_png, cover1_jpg, cover2_jpg, cover1_txt}

\* The same names in the order of _natural_key.
CoverOrder == <<b_png, cover1_jpg, cover1_txt, cover2_jpg>>

\* --start and --ext after main's checks and normalisation
CoverStarts == {1, 2}
CoverExts == {".jpg", ".txt"}

IsFile(d, n) == n \in DOMAIN d /\ d[n].kind = "file"

\* p.is_file() and p.suffix.lower() in _IMAGE_SUFFIXES
_is_image(d, n) == IsFile(d, n) /\ n[2] \in _IMAGE_SUFFIXES

\* _list_images: the image files of the directory in natural order
_list_images(d) == SelectSeq(CoverOrder, LAMBDA n : _is_image(d, n))

\* f"cover-{i}{ext}"
_target_name(i, ext) == <<"cover-" \o ToString(i), ext>>

\* (mutant) every source is given the name of the first one
BuildPlanSameIndex(images, start, ext) ==
    [ sources |-> images,
      final_names |-> [idx \in 1..Len(images) |-> _target_name(start, ext)] ]

\* _build_plan: final_names[idx] = _target_name(start + idx, ext), idx from 0
_build_plan(images, start, ext) ==
    [ sources |-> images,
      final_names |-> [idx \in 1..Len(images) |-> _target_name(start + idx - 1, ext)] ]

\* (mutant) the check looks at every entry, sub-directories included
ValidateRaisesAnyEntry(d, pl, overwrite) ==
    \E k \in 1..Len(pl.final_names) :
        /\ pl.final_names[k] \in DOMAIN d
        /\ pl.final_names[k] \notin Range(pl.sources)
        /\ ~overwrite

\* _validate_plan raises: a final name is the name of a regular file that is
\* no source, and overwrite is off.
ValidateRaises(d, pl, overwrite) ==
    LET existing == {n \in DOMAIN d : IsFile(d, n)}
        source_names == Range(pl.sources)
    IN  \E k \in 1..Len(pl.final_names) :
            /\ pl.final_names[k] \in existing
            /\ pl.final_names[k] \notin source_names
            /\ ~overwrite

\* tmp_names[i]: the token is fresh, no entry of the directory has the name
TmpName(pl, i) == <<"tmp-" \o ToString(i), pl.sources[i][2]>>

\* os.rename of a file: the entry moves, a regular file at the new name is
\* replaced
Rename(d, from, to) ==
    [n \in (DOMAIN d \ {from}) \cup {to} |-> IF n = to THEN d[from] ELSE d[n]]

\* Path.unlink
Unlink(d, n) == [m \in DOMAIN d \ {n} |-> d[m]]

\* main up to _apply_rename: no image returns 0, a plan that is turned down
\* raises.
CoverMain ==
    /\ cpc = "start"
    /\ LET images == _list_images(dir_path)
           pl == _build_plan(images, cover_args.start, cover_args.ext)
       IN  IF images = <<>>
             THEN cpc' = "done" /\ UNCHANGED plan
           ELSE /\ plan' = pl
                /\ cpc' = IF ValidateRaises(dir_path, pl, cover_args.overwrite)
                             THEN "raised_validate" ELSE "phase1"
    /\ UNCHANGED <<dir_path, dir0, cover_args, cover_i, callVars, syncVars,
                   tagVars, gitVars, fullVars, dirVars>>

\* Phase 1, one pair: source -> temporary name.
CoverToTmp ==
    /\ cpc = "phase1"
    /\ cover_i <= Len(plan.sources)
    /\ LET src == plan.sources[cover_i]
           tmp == TmpName(plan, cover_i)
       IN  IF cover_args.dry_run
             THEN cover_i' = cover_i + 1 /\ UNCHANGED <<cpc, dir_path>>
           ELSE IF tmp \in DOMAIN dir_path /\ ~cover_args.overwrite
             THEN cpc' = "raised_phase1" /\ UNCHANGED <<cover_i, dir_path>>
           ELSE /\ dir_path' = Rename(dir_path, src, tmp)
                /\ cover_i' = cover_i + 1
                /\ UNCHANGED cpc
    /\ UNCHANGED <<dir0, cover_args, plan, callVars, syncVars,
                   tagVars, gitVars, fullVars, dirVars>>

\* The first loop is exhausted.
CoverPhase2 ==
    /\ cpc = "phase1"
    /\ cover_i > Len(plan.sources)
    /\ cpc' = "phase2"
    /\ cover_i' = 1
    /\ UNCHANGED <<dir_path, dir0, cover_args, plan, callVars, syncVars,
                   tagVars, gitVars, fullVars, dirVars>>

\* Phase 2, one pair: temporary name -> final name. An entry at the final
\* name raises with overwrite off; with overwrite on it is unlinked, which
\* raises for a sub-directory.
CoverToFinal ==
    /\ cpc = "phase2"
    /\ cover_i <= Len(plan.sources)
    /\ LET tmp == TmpName(plan, cover_i)
           final == plan.final_names[cover_i]
       IN  IF cover_args.dry_run
             THEN cover_i' = cover_i + 1 /\ UNCHANGED <<cpc, dir_path>>
           ELSE IF final \in DOMAIN dir_path
                     /\ (~cover_args.overwrite \/ ~IsFile(dir_path, final))
             THEN cpc' = "raised_phase2" /\ UNCHANGED <<cover_i, dir_path>>
           ELSE /\ dir_path' =
                      Rename(IF final \in DOMAIN dir_path
                               THEN Unlink(dir_path, final) ELSE dir_path, tmp, final)
                /\ cover_i' = cover_i + 1
                /\ UNCHANGED cpc
    /\ UNCHANGED <<dir0, cover_args, plan, callVars, syncVars,
                   tagVars, gitVars, fullVars, dirVars>>

\* The second loop is exhausted: _apply_rename returns.
CoverDone ==
    /\ cpc = "phase2"
    /\ cover_i > Len(plan.sources)
    /\ cpc' = "done"
    /\ cover_i' = 1
    /\ UNCHANGED <<dir_path, dir0, cover_args, plan, callVars, syncVars,
                   tagVars, gitVars, fullVars, dirVars>>

CoverInit ==
    /\ TagIdle /\ GitIdle /\ FullIdle /\ DirIdle /\ CallIdle /\ SyncIdle
    /\ cpc = "start"
    /\ dir0 \in UNION { [S -> {"file", "dir"}] : S \in SUBSET CoverNames }
    /\ dir_path = [n \in DOMAIN dir0 |-> [kind |-> dir0[n], id |-> n]]
    /\ cover_args \in [ start : CoverStarts, ext : CoverExts, dry_run : BOOLEAN,
                         overwrite : BOOLEAN ]
    /\ plan = <<>>
    /\ cover_i = 1

CoverNext ==
    \/ CoverMain
    \/ CoverToTmp
    \/ CoverPhase2
    \/ CoverToFinal
    \/ CoverDone

SpecCovers == CoverInit /\ [][CoverNext]_vars

\* ===================================================================== sync.py
\* A directory is the tuple of the parts of its path relative to notes_dir
\* (<<>> is '.'), a file name is <<stem, suffix>>, a file is <<directory, name>>.
MaxMd == 1

d_root == <<>>
d_a == <<"a">>
d_ab == <<"a", "b">>
d_c == <<"c">>

NoteDirs == {d_root, d_a, d_ab, d_c}

\* sorted(md_files): 'a/b/..' < 'a/n..' < 'c/..' < 'n..'
PathOrder == <<d_ab, d_a, d_c, d_root>>

\* PurePosixPath(d).parent
Parent(d) == SubSeq(d, 1, Len(d) - 1)

IsPrefix(d, e) == Len(d) <= Len(e) /\ SubSeq(e, 1, Len(d)) = d

MdName(k) == <<"n" \o ToString(k), ".md">>
IgnoredName == <<"i", ".md">>
ImageName == <<"p", ".png">>
StaleMd == <<"old", ".md">>
OtherFile == <<"keep", ".txt">>

\* path.suffix.lower() in {'.md', '.markdown'}
_is_markdown(n) == n[2] \in {".md", ".markdown"}

\* path.suffix.lower() in the image suffixes of sync.py
SyncIsImage(n) ==
    n[2] \in {".png", ".jpg", ".jpeg", ".gif", ".webp", ".svg", ".bmp", ".tiff", ".tif",
              ".ico", ".avif"}

\* os.walk with the ignored directories pruned: a directory is visited when
\* neither it nor a directory above it is matched by the ignore file.
Visited(nt, d) == \A k \in 1..Len(d) : SubSeq(d, 1, k) \notin nt.pruned

\* The files of a directory of the notes tree.
FilesIn(nt, d) ==
    {<<d, MdName(k)>> : k \in 1..nt.md[d]}
        \cup (IF d \in nt.ignored THEN {<<d, IgnoredName>>} ELSE {})
        \cup (IF d \in nt.images THEN {<<d, ImageName>>} ELSE {})

\* is_ignored(rel_f_posix, is_dir=False)
FileIgnored(nt, f) == f[2] = IgnoredName

\* The files of the set in sorted order.
RECURSIVE SortedFiles(_, _)
SortedFiles(S, ds) ==
    IF ds = <<>> THEN <<>>
    ELSE LET d == Head(ds)
             here == SelectSeq(
                        <<<<d, IgnoredName>>>> \o [k \in 1..MaxMd |-> <<d, MdName(k)>>]
                            \o <<<<d, ImageName>>>>,
                        LAMBDA f : f \in S)
         IN  here \o SortedFiles(S, Tail(ds))

\* _walk_notes: (md_files, image_files, local_md_count_by_dir, all_dirs)
_walk_notes(nt) ==
    LET all_dirs == {d \in NoteDirs : Visited(nt, d)}
        seen == UNION {FilesIn(nt, d) : d \in all_dirs}
        kept == {f \in seen : ~FileIgnored(nt, f)}
        md == {f \in kept : _is_markdown(f[2])}
        img == {f \in kept : ~_is_markdown(f[2]) /\ SyncIsImage(f[2])}
    IN  [ md_files |-> SortedFiles(md, PathOrder),
          image_files |-> SortedFiles(img, PathOrder),
          local_counts |-> [d \in all_dirs |-> Cardinality({f \in md : f[1] = d})],
          all_dirs |-> all_dirs ]

\* (mutant) the directories are processed shallowest first
ShallowestFirst(dirs) == SelectSeq(<<d_root, d_a, d_c, d_ab>>, LAMBDA d : d \in dirs)

\* sorted(all_dirs, key=depth, reverse=True)
DeepestFirst(dirs) == SelectSeq(<<d_ab, d_a, d_c, d_root>>, LAMBDA d : d \in dirs)

\* dict.get(k, 0)
Get0(m, k) == IF k \in DOMAIN m THEN m[k] ELSE 0

\* The loop of _compute_subtree_counts over the directories in that order.
RECURSIVE AddUp(_, _)
AddUp(subtree, order) ==
    IF order = <<>> THEN subtree
    ELSE LET d == Head(order)
         IN  IF d = d_root THEN AddUp(subtree, Tail(order))
             ELSE AddUp(DictPut(subtree, Parent(d), Get0(subtree, Parent(d)) + Get0(subtree, d)),
                        Tail(order))

_compute_subtree_counts(local_counts, all_dirs) ==
    AddUp([d \in all_dirs |-> Get0(local_counts, d)], DeepestFirst(all_dirs))

\* eligible_dirs = {d for d, c in subtree_counts.items() if c >= cfg.min_md_per_tree}
EligibleDirs(counts, min) == {d \in DOMAIN counts : counts[d] >= min}

\* ----------------------------------------------------- the target trees
\* target.files: <<root, directory, name>> -> what the file holds ("old" from
\* before the run, "new" written by it); target.dirs: <<root, directory>>.
RootExists(t, root) == <<root, d_root>> \in t.dirs

\* dst.parent.mkdir(parents=True, exist_ok=True)
MkdirParents(t, root, d) ==
    [t EXCEPT !.dirs = @ \cup {<<root, SubSeq(d, 1, k)>> : k \in 0..Len(d)}]

\* dst.write_text(raw) / shutil.copy2(src, dst) after the mkdir
CopyTo(t, root, f) ==
    LET u == MkdirParents(t, root, f[1])
    IN  [u EXCEPT !.files = DictPut(@, <<root, f[1], f[2]>>, "new")]

\* d.rmdir() for the directories below the root, deepest first: an empty
\* one is removed, OSError is passed over.
RECURSIVE RmEmptyDirs(_, _, _)
RmEmptyDirs(t, root, order) ==
    IF order = <<>> THEN t
    ELSE LET d == Head(order)
             empty == /\ ~\E k \in DOMAIN t.files : k[1] = root /\ k[2] = d
                      /\ ~\E e \in t.dirs : e[1] = root /\ Len(e[2]) = Len(d) + 1
                                                /\ IsPrefix(d, e[2])
         IN  IF <<root, d>> \in t.dirs /\ empty
               THEN RmEmptyDirs([t EXCEPT !.dirs = @ \ {<<root, d>>}], root, Tail(order))
               ELSE RmEmptyDirs(t, root, Tail(order))

\* The delete block for one root: the files of the kind are unlinked and the
\* empty directories removed, or the missing root is created.
DeleteUnder(t, root) ==
    IF RootExists(t, root)
      THEN LET gone == {k \in DOMAIN t.files :
                          /\ k[1] = root
                          /\ IF root = "posts" THEN _is_markdown(k[3]) ELSE SyncIsImage(k[3])}
               u == [t EXCEPT !.files = [k \in DOMAIN t.files \ gone |-> t.files[k]]]
           IN  RmEmptyDirs(u, root, <<d_ab, d_a, d_c>>)
      ELSE [t EXCEPT !.dirs = @ \cup {<<root, d_root>>}]

\* (mutant) the post-processing is started whatever dry_run is
PostWantedInDryRun(c) == c.post_process

\* cfg.post_process and not cfg.dry_run
PostWanted(c) == c.post_process /\ ~c.dry_run

\* ---------------------------------------------------------------- _sync
\* The walk, the subtree counts and the eligible directories.
SyncScan ==
    /\ spc = "start"
    /\ LET w == _walk_notes(notes)
           counts == _compute_subtree_counts(w.local_counts, w.all_dirs)
       IN  scan' = [ md_files |-> w.md_files, image_files |-> w.image_files,
                     subtree_counts |-> counts,
                     eligible_dirs |-> EligibleDirs(counts, sync_cfg.min_md_per_tree) ]
    /\ spc' = "delete"
    /\ UNCHANGED <<notes, sync_cfg, target, target0, sync_i, copied, post_run,
                   callVars, coverVars, tagVars, gitVars, fullVars, dirVars>>

\* if cfg.delete_before_sync: only printed in a dry run.
SyncDelete ==
    /\ spc = "delete"
    /\ target' = IF sync_cfg.delete_before_sync /\ ~sync_cfg.dry_run
                   THEN DeleteUnder(DeleteUnder(target, "posts"), "images")
                   ELSE target
    /\ spc' = "md"
    /\ sync_i' = 1
    /\ UNCHANGED <<notes, sync_cfg, scan, target0, copied, post_run,
                   callVars, coverVars, tagVars, gitVars, fullVars, dirVars>>

\* One iteration of the loop over md_files.
SyncCopyMd ==
    /\ spc = "md"
    /\ sync_i <= Len(scan.md_files)
    /\ LET f == scan.md_files[sync_i]
       IN  IF f[1] \notin scan.eligible_dirs
             THEN UNCHANGED <<target, copied>>
             ELSE /\ target' = IF sync_cfg.dry_run THEN target ELSE CopyTo(target, "posts", f)
                  /\ copied' = copied \cup {f}
    /\ sync_i' = sync_i + 1
    /\ UNCHANGED <<spc, notes, sync_cfg, scan, target0, post_run,
                   callVars, coverVars, tagVars, gitVars, fullVars, dirVars>>

SyncMdDone ==
    /\ spc = "md"
    /\ sync_i > Len(scan.md_files)
    /\ spc' = "images"
    /\ sync_i' = 1
    /\ UNCHANGED <<notes, sync_cfg, scan, target, target0, copied, post_run,
                   callVars, coverVars, tagVars, gitVars, fullVars, dirVars>>

\* One iteration of the loop over image_files.
SyncCopyImage ==
    /\ spc = "images"
    /\ sync_i <= Len(scan.image_files)
    /\ LET f == scan.image_files[sync_i]
       IN  /\ target' = IF sync_cfg.dry_run THEN target ELSE CopyTo(target, "images", f)
           /\ copied' = copied \cup {f}
    /\ sync_i' = sync_i + 1
    /\ UNCHANGED <<spc, notes, sync_cfg, scan, target0, post_run,
                   callVars, coverVars, tagVars, gitVars, fullVars, dirVars>>

\* The images are done: the post-processing is started when asked for, and
\* _sync returns or raises with what the script did.
SyncPost ==
    /\ spc = "images"
    /\ sync_i > Len(scan.image_files)
    /\ post_run' = PostWanted(sync_cfg)
    /\ spc' = "done"
    /\ sync_i' = 1
    /\ UNCHANGED <<notes, sync_cfg, scan, target, target0, copied,
                   callVars, coverVars, tagVars, gitVars, fullVars, dirVars>>

\* The target trees when _sync is called: missing, or left by an earlier run.
NoTarget == [files |-> <<>>, dirs |-> {}]

StaleTarget ==
    [ files |-> [k \in { <<"posts", d_a, StaleMd>>, <<"posts", d_a, MdName(1)>>,
                          <<"posts", d_c, OtherFile>>, <<"images", d_a, ImageName>> }
                    |-> "old"],
      dirs |-> { <<"posts", d_root>>, <<"posts", d_a>>, <<"posts", d_c>>,
                 <<"images", d_root>>, <<"images", d_a>> } ]

AtMostOne(S) == {T \in SUBSET S : Cardinality(T) <= 1}

SyncInit ==
    /\ TagIdle /\ GitIdle /\ FullIdle /\ DirIdle /\ CallIdle /\ CoverIdle
    /\ spc = "start"
    /\ notes \in [ md : [NoteDirs -> 0..MaxMd], ignored : AtMostOne(NoteDirs),
                    pruned : AtMostOne(NoteDirs \ {d_root}), images : AtMostOne({d_a}) ]
    /\ sync_cfg \in [ min_md_per_tree : 1..3, dry_run : BOOLEAN,
                       delete_before_sync : BOOLEAN, post_process : BOOLEAN ]
    /\ scan = <<>>
    /\ target0 \in {NoTarget, StaleTarget}
    /\ target = target0
    /\ sync_i = 1
    /\ copied = {}
    /\ post_run = FALSE

SyncNext ==
    \/ SyncScan
    \/ SyncDelete
    \/ SyncCopyMd
    \/ SyncMdDone
    \/ SyncCopyImage
    \/ SyncPost

SpecSync == SyncInit /\ [][SyncNext]_vars

\* ---------------------------------------- the two builders, one after the other
\* proc.py's call has returned and its locals are gone; process_posts.py's
\* builder is called for the same interest paths.
NextBuild ==
    /\ gpc = "done" /\ ppc = "idle"
    /\ current_ts' = <<>>
    /\ back_trace' = <<>>
    /\ updated' = <<>>
    /\ created' = <<>>
    /\ result' = <<>>
    /\ returncode' = <<>>
    /\ tmp_file' = "none"
    /\ marker_ok' = FALSE
    /\ holder' = <<>>
    /\ truth' = <<>>
    /\ IF interest_paths = {}
         THEN ppc' = "done" /\ p_result' = <<>>
         ELSE ppc' = "scan" /\ UNCHANGED p_result
    /\ UNCHANGED <<interest_paths, gpc, back_alias, p_updated, p_created, done,
                   amd_seen, amd_class, tree0, hist_class, chain, tagVars, fullVars,
                   dirVars, extVars>>

BuildsNext ==
    \/ ProcCall
    \/ ProcReadLine
    \/ ProcReturn
    \/ NextBuild
    \/ PostsReadLine
    \/ PostsReturn

SpecBuilds == PostsInit /\ [][BuildsNext]_vars

\* ------------------------------------------ both builders, one stream
OffChain == <<NoName>>

\* A rename record that registers an alias in one of the builders.
Registers(line) ==
    /\ ReachesSplit(current_ts, line)
    /\ IsRenameLine(line.parts)
    /\ \/ ProcLookup(back_trace, interest_paths, line.parts[3]) # <<>>
       \/ LET r == resolve_final(back_alias, line.parts[3])
          IN  r.loops \/ r.final \in interest_paths

\* chain records that the renames registered so far are A -> B, or A -> B and
\* then X -> A, with B of interest and A and X not: <<A, B>>, <<A, B, X>>.
ChainStep(line) ==
    IF ~Registers(line) THEN chain
    ELSE LET o == line.parts[2]
             n == line.parts[3]
         IN  IF chain = <<>>
               THEN IF n \in interest_paths /\ o \notin interest_paths
                      THEN <<o, n>> ELSE OffChain
             ELSE IF Len(chain) = 2
               THEN IF n = chain[1] /\ o \notin interest_paths
                      THEN <<chain[1], chain[2], o>> ELSE OffChain
             ELSE OffChain

BothCall ==
    /\ gpc = "idle" /\ ppc = "idle"
    /\ ProcStart
    /\ IF interest_paths = {}
         THEN ppc' = "done" /\ p_result' = <<>>
         ELSE ppc' = "scan" /\ UNCHANGED p_result
    /\ UNCHANGED <<interest_paths, current_ts, back_trace, updated, created,
                   back_alias, p_updated, p_created, done,
                   streamVars, histVars, chain, tagVars, fullVars, dirVars, extVars>>

\* Both loops take the same line. The stream ends at the line at which the
\* loop of process_posts.py is left, and at a rename that is not of the chain.
BothReadLine ==
    /\ gpc = "scan" /\ ppc = "scan"
    /\ chain # OffChain
    /\ \E line \in Lines :
          /\ current_ts' = NextTs(current_ts, line)
          /\ ProcLine(line)
          /\ PostsLine(line)
          /\ chain' = ChainStep(line)
    /\ UNCHANGED <<interest_paths, gpc, result, returncode, tmp_file, p_result,
                   streamVars, histVars, tagVars, fullVars, dirVars, extVars>>

BothReturn ==
    /\ gpc = "scan"
    /\ gpc' = "done"
    /\ tmp_file' = "removed"
    /\ UNCHANGED returncode
    /\ result' = BuildResult(interest_paths, created, updated)
    /\ IF ppc = "hung"
         THEN UNCHANGED <<ppc, p_result>>
         ELSE /\ ppc' = "done"
              /\ p_result' = BuildResult(interest_paths, p_created, p_updated)
    /\ UNCHANGED <<interest_paths, current_ts, back_trace, updated, created,
                   back_alias, p_updated, p_created, done,
                   streamVars, histVars, chain, tagVars, fullVars, dirVars, extVars>>

BothNext ==
    \/ BothCall
    \/ BothReadLine
    \/ BothReturn

SpecChain == PostsInit /\ [][BothNext]_vars

\* ------------------------------------------- claims: proc.py's builder

\* C6: for a linear history of commits with increasing timestamps that add,
\* modify and rename files (a name may be taken by another file once a
\* rename has freed it), replayed newest-first down to the additions, the
\* builder of proc.py returns for each interest path P created = timestamp
\* of the commit that added the file now at P and updated = timestamp of the
\* newest commit that touched that file under any name.
C6_HistoryAttributed ==
    (gpc = "done" /\ interest_paths # {} /\ HistComplete) =>
        \A n \in interest_paths : n \in DOMAIN result /\ result[n] = truth[n]

\* C7: for a newest-first stream of Added/Modified/Deleted records only,
\* the full-scan builder of proc.py has, for every interest path touched by
\* a record, created = timestamp of the oldest record with that path and
\* updated = timestamp of the newest, while scanning and in the result.
C7_OldestNewest ==
    (amd_class /\ gpc \in {"scan", "done"}) =>
        \A n \in interest_paths \cap DOMAIN amd_seen :
            /\ n \in DOMAIN created /\ created[n] = amd_seen[n][1]
            /\ n \in DOMAIN updated /\ updated[n] = amd_seen[n][2]
            /\ gpc = "done" => (n \in DOMAIN result /\ result[n] = amd_seen[n])

\* An interest path with records at several timestamps, returned.
C7_SeveralRecords ==
    /\ gpc = "done"
    /\ amd_class
    /\ \E n \in interest_paths \cap DOMAIN amd_seen :
          /\ amd_seen[n][1] < amd_seen[n][2]
          /\ result[n] = amd_seen[n]
    /\ \E n \in DOMAIN amd_seen : n \notin interest_paths

\* C9: every entry (created, updated) of the result has created <= updated,
\* whatever the order of the timestamps in the stream.
C9_CreatedBeforeUpdated ==
    \A n \in DOMAIN result : result[n][1] <= result[n][2]

\* ------------------------------------- claims: both builders, the chain
C8_Names == Range(chain)

C8_AliasesRegistered ==
    Len(chain) >= 2 =>
        LET b == chain[2]
        IN  /\ \A n \in C8_Names \ {b} :
                  /\ n \in DOMAIN back_trace /\ back_trace[n] = b
                  /\ n \in DOMAIN back_alias
            /\ \A n \in C8_Names :
                  /\ ProcLookup(back_trace, interest_paths, n) = <<b>>
                  /\ ~resolve_final(back_alias, n).loops
                  /\ resolve_final(back_alias, n).final = b

C8_RecordAttributed ==
    \A line \in Lines :
        ( /\ Len(chain) >= 2
          /\ gpc = "scan" /\ ppc = "scan" /\ gpc' = "scan"
          /\ ReachesSplit(current_ts, line)
          /\ Len(line.parts) >= 2
          /\ LookedUp(line.parts) \in C8_Names
          /\ current_ts' = current_ts
          /\ ProcLine(line)
          /\ PostsLine(line) )
        => /\ chain[2] \in DOMAIN created' /\ created'[chain[2]] = current_ts[1]
           /\ chain[2] \in DOMAIN updated'
           /\ chain[2] \in DOMAIN p_created' /\ p_created'[chain[2]] = current_ts[1]
           /\ chain[2] \in DOMAIN p_updated'

C10_AliasAcyclic ==
    /\ ppc # "hung"
    /\ \A n \in DOMAIN back_alias : ~Walk(back_alias, n, <<>>).loops

\* C11: when the stream has ended, the early-stopping loop has returned what
\* the scan of the whole newest-first stream gives for every interest path;
\* on ExampleStream with interest {b.md} it returns b.md -> (1, 3).
C11_EarlyStopSameAsFullScan ==
    /\ (ppc = "done" /\ f_pc = "done") =>
          p_result = BuildResult(interest_paths, f_created, f_updated)
    /\ (ppc = "done" /\ interest_paths = {"b.md"} /\ ex_pos = <<Len(ExampleStream)>>) =>
          p_result = [n \in {"b.md"} |-> <<1, 3>>]

\* C12: the index returned has an entry exactly for the interest paths a
\* record was attributed to: its keys are interest paths, no alias name that
\* is not of interest is a key, and an interest path no record touched (none
\* attributed, and none at all while the stream holds A/M/D records only) is
\* absent.
C12_KeysAreTouchedInterestPaths ==
    gpc = "done" =>
        /\ DOMAIN result \subseteq interest_paths
        /\ DOMAIN result = DOMAIN created
        /\ DOMAIN created = DOMAIN updated
        /\ \A a \in DOMAIN back_trace : a \notin interest_paths => a \notin DOMAIN result
        /\ amd_class => DOMAIN result = interest_paths \cap DOMAIN amd_seen

C12_AliasAndUntouched ==
    /\ gpc = "done"
    /\ \E n \in interest_paths : n \in DOMAIN result
    /\ \E n \in interest_paths : n \notin DOMAIN result
    /\ \E a \in DOMAIN back_trace : a \notin interest_paths

\* A line the loop skips: empty, a marker that does not parse, a change line
\* of a commit whose marker did not parse, or one with fewer than two fields.
C13_Skipped(line) ==
    \/ line.kind \in {"blank", "badts"}
    \/ line.kind = "change" /\ (~marker_ok \/ Len(line.parts) < 2)

C13_LineStep(line) ==
    /\ gpc = "scan" /\ gpc' = "scan"
    /\ current_ts' = NextTs(current_ts, line)
    /\ ProcLine(line)

C13_SkipsAndResumes ==
    \A line \in Lines :
        C13_LineStep(line) =>
            /\ C13_Skipped(line) => UNCHANGED <<back_trace, updated, created>>
            /\ line.kind = "badts" => current_ts' = <<>>
            /\ line.kind = "ts" => current_ts' = <<line.ts>>
            /\ \A n \in DOMAIN created' :
                   (n \notin DOMAIN created \/ created'[n] # created[n]) =>
                       marker_ok /\ created'[n] = current_ts[1]

\* C13: a malformed line leaves created, updated and the alias table as they
\* are and the loop goes on: a change line with fewer than two fields is
\* skipped; after a marker that does not parse current_ts is None, so the
\* change lines of that commit are skipped, never attributed with an earlier
\* timestamp, until the next marker that parses.
C13_MalformedLineSkipped ==
    [](~marker_ok => current_ts = <<>>) /\ [][C13_SkipsAndResumes]_vars

C13_InBadCommit ==
    /\ gpc = "scan"
    /\ ~marker_ok
    /\ current_ts = <<>>
    /\ created # <<>>

C20_UpdatedKept ==
    /\ gpc = "scan" =>
          \A n \in DOMAIN updated : n \in DOMAIN updated' /\ updated'[n] = updated[n]
    /\ ppc = "scan" =>
          \A n \in DOMAIN p_updated : n \in DOMAIN p_updated' /\ p_updated'[n] = p_updated[n]

\* C20: during a build of either builder, an entry of updated that is set is
\* left as it is by every later line, whatever record it holds and whether it
\* reaches the path directly or through an alias.
C20_UpdatedNeverChanges == [][C20_UpdatedKept]_vars

C20_CreatedOverwritten ==
    /\ gpc = "done" /\ ppc = "scan"
    /\ back_alias # <<>>
    /\ \E n \in DOMAIN p_updated : p_created[n] # p_updated[n]

\* ------------------------------------------------ claims: git's exit status
\* C14: after a non-zero exit of git log, the builder has returned the empty
\* index, nothing was attributed, and the temporary file is removed.
C14_FailedGitEmptyIndex ==
    (returncode # <<>> /\ returncode[1] # 0) =>
        /\ gpc = "done"
        /\ result = <<>>
        /\ created = <<>> /\ updated = <<>> /\ back_trace = <<>>
        /\ tmp_file = "removed"

C14_GitFailed ==
    /\ returncode = <<128>>
    /\ interest_paths # {}
    /\ gpc = "done"
    /\ result = <<>>
    /\ tmp_file = "removed"

\* ------------------------------------------- claims: process_directory
\* C15: a document without cache entry whose history query yields nothing is,
\* with require_git_history false, written with created = updated = the
\* fallback (cfg.timestamp, or the current time when it is None) and the loop
\* goes on to the next file; with require_git_history true, process_file
\* raises an error that names the document's relative path.
C15_FallbackOrRaise ==
    /\ \A rel \in DOMAIN written :
          rel \notin DOMAIN _time_cache =>
              /\ ~cfg.require_git_history
              /\ notes_log[rel] = <<>>
              /\ written[rel].created = written[rel].updated
              /\ IF cfg.timestamp # <<>>
                   THEN written[rel].created = cfg.timestamp[1]
                   ELSE written[rel].created \in NowValues
    /\ dpc = "raised" =>
          /\ cfg.require_git_history
          /\ raised = <<files[file_i]>>
          /\ files[file_i] \notin DOMAIN _time_cache
          /\ notes_log[files[file_i]] = <<>>
          /\ files[file_i] \notin DOMAIN written
    /\ dpc = "files" =>
          \A i \in 1..(file_i - 1) :
              /\ files[i] \in DOMAIN written
              /\ (files[i] \notin DOMAIN _time_cache /\ i < Len(files)) =>
                    (file_i > i + 1 \/ ENABLED DirProcessFile)

C15_FellBackAndWentOn ==
    /\ dpc = "done"
    /\ Len(files) = 2
    /\ cfg.timestamp # <<>>
    /\ files[1] \notin DOMAIN _time_cache
    /\ written[files[1]].created = cfg.timestamp[1]
    /\ files[2] \in DOMAIN written

\* C17: with the disabled selection ('none', in any case and padding)
\* build_index is never called, cfg._tags_by_path stays empty and every
\* document is written with an empty tag list; when an index is built, it is
\* built by the extractor registered under the name given.
C17_DisabledNoTags ==
    /\ Strip(Lower(cfg.tag_method)) = m_none =>
          /\ tpc = "idle" /\ calls = 0
          /\ _tags_by_path = <<>>
          /\ \A rel \in DOMAIN written : written[rel].tags = <<>>
    /\ calls > 0 =>
          Registered(Strip(Lower(IF cfg.tag_method = <<>> THEN m_tfidf ELSE cfg.tag_method)))
              = <<tag_method>>

C17_DisabledRunDone ==
    /\ cfg.tag_method = m_NonePadded
    /\ tag_count > 0
    /\ dpc = "done"
    /\ Len(files) = 2
    /\ \A i \in 1..2 : files[i] \in DOMAIN written /\ written[files[i]].tags = <<>>

\* C19: when the first document is rewritten, build_index has returned (when
\* a tag index is asked for) with a list for every file, and the batch git
\* index step is passed; build_index read no rewritten file; the files are
\* rewritten one at a time in the sorted order of the list the allocator got.
C19_IndexesBeforeRewrite ==
    /\ written # <<>> =>
          /\ dpc \in {"files", "done", "raised"}
          /\ tpc \in {"idle", "returned"}
          /\ WantsTags =>
                /\ tpc = "returned"
                /\ \A i \in 1..Len(files) :
                      /\ files[i] \in DOMAIN _tags_by_path
                      /\ _tags_by_path[files[i]] = returned[i]
    /\ tags_read = {}
    /\ files = Sorted(Range(files))
    /\ dpc \in {"files", "raised"} => DOMAIN written = {files[i] : i \in 1..(file_i - 1)}
    /\ dpc \in {"start", "tags", "git"} => written = <<>>

C19_AllRewrittenAfterIndexes ==
    /\ dpc = "done"
    /\ Len(files) = 2
    /\ WantsTags
    /\ cfg.git_batch
    /\ \A i \in 1..2 : files[i] \in DOMAIN written /\ written[files[i]].tags # <<>>
    /\ DOMAIN _time_cache = Range(files)

\* The names resolve_final(name) passes in the table before the call.
C21_Chain == Range(Walk(resolved[1].before, resolved[1].name, <<>>).chain)

\* C21: after resolve_final(n) has returned f, every name that was on the
\* alias chain from n maps to f in one hop, and every name, on the chain or
\* off it, resolves as it did before the call (the walk from it ends at the
\* same name, or comes back to a name it passed as before).
C21_CompressionKeepsTargets ==
    resolved # <<>> =>
        LET c == resolved[1]
        IN  /\ \A n \in C21_Chain : n \in DOMAIN c.after /\ c.after[n] = c.final
            /\ DOMAIN c.after = DOMAIN c.before
            /\ \A n \in Names :
                  /\ Walk(c.after, n, <<>>).final = Walk(c.before, n, <<>>).final
                  /\ Walk(c.after, n, <<>>).loops = Walk(c.before, n, <<>>).loops

\* A call that passed two names and rewrote the entry of the first.
C21_ChainCompressed ==
    /\ resolved # <<>>
    /\ Cardinality(C21_Chain) >= 2
    /\ resolved[1].after # resolved[1].before

\* C22: on every stream and interest set, proc.py's builder and the loop of
\* process_posts.py without its early stop return the same index.
C22_BuildersAgree ==
    (gpc = "done" /\ f_pc = "done") =>
        result = BuildResult(interest_paths, f_created, f_updated)

\* C25: process_directory never overwrites a time-cache entry it was handed:
\* the batch index is built for the paths missing from cfg._time_cache only,
\* and every entry present before still has its (created, updated) value.
C25_GivenEntriesKept ==
    \A k \in DOMAIN cache0 :
        k \in DOMAIN _time_cache /\ _time_cache[k] = cache0[k]

\* The batch index filled b.md next to the entry given for a.md.
C25_FilledNextToGiven ==
    /\ dpc \in {"files", "done"}
    /\ cfg.git_batch
    /\ files = <<"a.md", "b.md">>
    /\ DOMAIN cache0 = {"a.md"}
    /\ "b.md" \in DOMAIN _time_cache
    /\ file_i = 1

\* The step in which process_file raises leaves the files, the time cache
\* and the tag index as they were, the file it was called for included.
C26_RaiseStep ==
    (raised = <<>> /\ raised' # <<>>) =>
        /\ written' = written
        /\ raised'[1] \notin DOMAIN written'
        /\ _time_cache' = _time_cache
        /\ _tags_by_path' = _tags_by_path

\* C26: when process_file raises for want of history in strict mode, the
\* document is unchanged on disk and so are the time cache and the tag
\* index: the error is raised before any write.
C26_RaisedBeforeAnyWrite == [][C26_RaiseStep]_vars

\* process_file raised for b.md after a.md had been rewritten.
C26_RaisedOnSecondFile ==
    /\ dpc = "raised"
    /\ raised = <<"b.md">>
    /\ DOMAIN written = {"a.md"}
    /\ cfg.require_git_history

\* The image files of the directory when main was called, and now.
C27_ImagesBefore == {n \in DOMAIN dir0 : dir0[n] = "file" /\ n[2] \in _IMAGE_SUFFIXES}
C27_ImagesNow == {n \in DOMAIN dir_path : _is_image(dir_path, n)}

\* The file that was sources[i] is the regular file at final_names[i].
C27_SourcesAtFinalNames ==
    \A k \in 1..Len(plan.sources) :
        /\ plan.final_names[k] \in DOMAIN dir_path
        /\ dir_path[plan.final_names[k]] = [kind |-> "file", id |-> plan.sources[k]]

C28_AllOrNothing ==
    cpc \in {"raised_phase1", "raised_phase2"} => cover_args.overwrite

\* The Markdown files of the notes tree that the ignore file does not match,
\* in the directories the walk reaches.
C29_Markdown ==
    {f \in UNION {FilesIn(notes, d) : d \in {e \in NoteDirs : Visited(notes, e)}} :
        _is_markdown(f[2]) /\ ~FileIgnored(notes, f)}

\* Their number in the subtree rooted at the directory.
C29_InSubtree(d) == Cardinality({f \in C29_Markdown : IsPrefix(d, f[1])})

\* The run wrote the file below target_dir.
C29_Written(f) ==
    /\ <<"posts", f[1], f[2]>> \in DOMAIN target.files
    /\ target.files[<<"posts", f[1], f[2]>>] = "new"

\* C29: once the loop over md_files is done, a non-ignored Markdown file is
\* counted as copied, and outside a dry run written below target_dir,
\* exactly when the subtree rooted at its parent directory holds at least
\* min_md_per_tree non-ignored Markdown files; so with a copied file every
\* non-ignored Markdown file of a directory above it is copied too.
C29_CopiedIffSubtreeLargeEnough ==
    spc \in {"images", "done"} =>
        \A f \in C29_Markdown :
            /\ f \in copied <=> C29_InSubtree(f[1]) >= sync_cfg.min_md_per_tree
            /\ ~sync_cfg.dry_run => (C29_Written(f) <=> f \in copied)
            /\ f \in copied =>
                  \A g \in C29_Markdown : IsPrefix(g[1], f[1]) => g \in copied

\* A file was copied because of the files below its directory, and another
\* file was left out.
C29_CopiedThanksToDescendants ==
    /\ spc = "done" /\ ~sync_cfg.dry_run
    /\ \E f \in C29_Markdown : \E g \in C29_Markdown :
          /\ C29_Written(f)
          /\ Cardinality({h \in C29_Markdown : h[1] = f[1]}) < sync_cfg.min_md_per_tree
          /\ ~C29_Written(g)

\* C30: in a dry run _sync creates, overwrites and deletes nothing below
\* target_dir and image_target_dir and does not start the post-processing,
\* also with delete_before_sync and post_process set.
C30_DryRunTouchesNothing ==
    (spc # "idle" /\ sync_cfg.dry_run) => (target = target0 /\ ~post_run)

\* A dry run with both options set came to its end over a target left by an
\* earlier run, with files reported as copied.
C30_DryRunDone ==
    /\ spc = "done"
    /\ sync_cfg.dry_run /\ sync_cfg.delete_before_sync /\ sync_cfg.post_process
    /\ target0 = StaleTarget
    /\ \E f \in copied : _is_markdown(f[2])
    /\ \E f \in copied : SyncIsImage(f[2])

=============================================================================
